---- MODULE Spec2Model ----
(***************************************************************************)
(* Time-tracker: the aggregation engine (range sums, check counts,         *)
(* streaks) and the calendar helpers it is built on.                       *)
(*                                                                         *)
(* Time.  A JavaScript Date is its time value.  The model keeps the time   *)
(* value in whole seconds since 1970-01-01T00:00:00Z (one model unit is    *)
(* 1000 of the code's milliseconds, TLC integers being 32 bits wide), so   *)
(* setHours(23, 59, 59, 999) is the last unit of the local day and the     *)
(* code's 1000*60*60*24 and 60000 are 86400 and 60.  The local time zone   *)
(* is a fixed offset `tz` from UTC (no daylight saving).                   *)
(*                                                                         *)
(* A date string 'YYYY-MM-DD' is the record [y, m, d] (m in 1..12).        *)
(* null is the value Null; undefined containers are absent record fields.  *)
(***************************************************************************)
EXTENDS Integers, Sequences, FiniteSets, TLC

VARIABLES
  activities,   \* the activity snapshot: activity id -> activity record
  tz,           \* offset of local time from UTC, in time units
  now,          \* the clock: what new Date() / Date.now() returns
  call          \* the last call made: its name, arguments and return value

vars == <<activities, tz, now, call>>

----------------------------------------------------------------------------
(* Program constants *)

DayUnits == 86400
MinuteUnits == 60
Null == -1

----------------------------------------------------------------------------
(* The Date object: civil calendar <-> day number (proleptic Gregorian),   *)
(* as Date's getters, setters, constructor and toISOString compute it.     *)

\* The day number of a civil date. The three arguments are bound to their
\* values first, so that each is computed once.
DaysFromCivil(year, month, day) ==
  CHOOSE n \in {
    LET yy  == IF m <= 2 THEN y - 1 ELSE y
        era == yy \div 400
        yoe == yy - era * 400
        mp  == IF m > 2 THEN m - 3 ELSE m + 9
        doy == (153 * mp + 2) \div 5 + d - 1
        doe == yoe * 365 + yoe \div 4 - yoe \div 100 + doy
    IN era * 146097 + doe - 719468 :
    y \in {year}, m \in {month}, d \in {day} } : TRUE

CivilFromDays(z) ==
  LET zz  == z + 719468
      era == zz \div 146097
      doe == zz - era * 146097
      yoe == (doe - doe \div 1460 + doe \div 36524 - doe \div 146096) \div 365
      doy == doe - (365 * yoe + yoe \div 4 - yoe \div 100)
      mp  == (5 * doy + 2) \div 153
      dd  == doy - (153 * mp + 2) \div 5 + 1
      mm  == IF mp < 10 THEN mp + 3 ELSE mp - 9
      yy  == yoe + era * 400 + (IF mm <= 2 THEN 1 ELSE 0)
  IN [y |-> yy, m |-> mm, d |-> dd]

\* new Date(year, monthIndex, day, ...): the day number of a local civil
\* date, monthIndex 0-based; monthIndex and day may overflow their ranges.
MakeDay(year, monthIndex, day) ==
  DaysFromCivil(year + monthIndex \div 12, (monthIndex % 12) + 1, 1) + day - 1

\* The local day number and the time of day of a time value.
LocalDay(t) == (t + tz) \div DayUnits
LocalTimeOfDay(t) == (t + tz) % DayUnits

\* The time value of a local day number and time of day.
MakeLocal(day, tod) == day * DayUnits + tod - tz

getFullYear(t) == CivilFromDays(LocalDay(t)).y
getMonth(t) == CivilFromDays(LocalDay(t)).m - 1
getDate(t) == CivilFromDays(LocalDay(t)).d
getDay(t) == (4 + LocalDay(t)) % 7

setDate(t, n) ==
  MakeLocal(MakeDay(getFullYear(t), getMonth(t), n), LocalTimeOfDay(t))

setHours(t, tod) == MakeLocal(LocalDay(t), tod)

\* new Date(dateStr) for a date-only string: UTC midnight of that date.
ParseDate(dateStr) == DaysFromCivil(dateStr.y, dateStr.m, dateStr.d) * DayUnits

----------------------------------------------------------------------------
(* Date helper functions *)

\* d.toISOString().split('T')[0]: the UTC calendar date of the time value.
getISODate(t) == CivilFromDays(t \div DayUnits)

getDayStart(t) == setHours(t, 0)

getDayEnd(t) == setHours(t, DayUnits - 1)

\* getWeekStart without the Sunday case of the day offset.
getWeekStartSundayForward(t) ==
  LET day  == getDay(t)
      diff == getDate(t) - day + 1
  IN setHours(setDate(t, diff), 0)

getWeekStart(t) ==
  LET day  == getDay(t)
      diff == getDate(t) - day + (IF day = 0 THEN -6 ELSE 1)
  IN setHours(setDate(t, diff), 0)

getWeekEnd(t) ==
  LET start == getWeekStart(t)
  IN setHours(setDate(start, getDate(start) + 6), DayUnits - 1)

getMonthStart(t) == MakeLocal(MakeDay(getFullYear(t), getMonth(t), 1), 0)

getMonthEnd(t) ==
  MakeLocal(MakeDay(getFullYear(t), getMonth(t) + 1, 0), DayUnits - 1)

getYearStart(t) == MakeLocal(MakeDay(getFullYear(t), 0, 1), 0)

getYearEnd(t) == MakeLocal(MakeDay(getFullYear(t), 11, 31), DayUnits - 1)

getPeriodRange(period, t) ==
  CASE period = "day"   -> [start |-> getDayStart(t), end |-> getDayEnd(t)]
    [] period = "week"  -> [start |-> getWeekStart(t), end |-> getWeekEnd(t)]
    [] period = "month" -> [start |-> getMonthStart(t), end |-> getMonthEnd(t)]
    [] period = "year"  -> [start |-> getYearStart(t), end |-> getYearEnd(t)]
    [] OTHER            -> [start |-> getDayStart(t), end |-> getDayEnd(t)]

----------------------------------------------------------------------------
(* Bounds and input sets *)

\* The time zones of the model: UTC-5, UTC, UTC+2.
TimeZones == {-18000, 0, 7200}

\* Reference days: FirstDay is Monday 1970-12-21; the window crosses the
\* month and the year (1971-01-01 is day 365, a Friday).
FirstDay == DaysFromCivil(1970, 12, 21)
NumDays == 16

RefDays == FirstDay .. (FirstDay + NumDays - 1)

\* Times of day: 00:00:00, 00:30:00, 12:00:00, 23:59:59.
TimesOfDay == {0, 1800, 43200, DayUnits - 1}

NoCall == [fn |-> "none"]

----------------------------------------------------------------------------
(* Calendar specification: the period helpers applied to reference dates   *)

Periods == {"day", "week", "month", "year", "decade"}

\* A local civil instant as the caller's Date.
RefDates == {MakeLocal(day, tod) : day \in RefDays, tod \in TimesOfDay}

InitCal ==
  /\ activities = <<>>
  /\ tz \in TimeZones
  /\ now \in {MakeLocal(FirstDay, 0)}
  /\ call = NoCall

\* The caller takes the returned value; the next call can be made.
Return ==
  /\ call # NoCall
  /\ call.fn # "calculateStreak"
  /\ call' = NoCall
  /\ UNCHANGED <<activities, tz, now>>

CallGetWeekStart ==
  \E date \in RefDates :
    /\ call = NoCall
    /\ call' = [fn |-> "getWeekStart", date |-> date, ret |-> getWeekStart(date)]
    /\ UNCHANGED <<activities, tz, now>>

CallGetPeriodRange ==
  \E period \in Periods, date \in RefDates :
    /\ call = NoCall
    /\ call' = [fn |-> "getPeriodRange", period |-> period, date |-> date,
                ret |-> getPeriodRange(period, date)]
    /\ UNCHANGED <<activities, tz, now>>

NextCal == CallGetWeekStart \/ CallGetPeriodRange \/ Return

SpecCal == InitCal /\ [][NextCal]_vars

----------------------------------------------------------------------------
\* C5: getWeekStart returns 00:00:00.000 local time of the latest Monday on
\* or before the reference date: the reference day itself on a Monday, six
\* days earlier on a Sunday, also across a month or year boundary.
WeekStartIsLatestMonday ==
  call.fn = "getWeekStart" =>
    LET refDay == LocalDay(call.date)
        monday == CHOOSE m \in (refDay - 6) .. refDay : (4 + m) % 7 = 1
    IN /\ call.ret = monday * DayUnits - tz
       /\ (4 + refDay) % 7 = 1 => LocalDay(call.ret) = refDay
       /\ (4 + refDay) % 7 = 0 => LocalDay(call.ret) = refDay - 6

\* C5 witness: a Sunday reference date in January whose Monday lies in the
\* previous month and year.
WeekStartSundayAcrossYear ==
  /\ call.fn = "getWeekStart"
  /\ (4 + LocalDay(call.date)) % 7 = 0
  /\ CivilFromDays(LocalDay(call.date)) = [y |-> 1971, m |-> 1, d |-> 3]
  /\ CivilFromDays(LocalDay(call.ret)) = [y |-> 1970, m |-> 12, d |-> 28]

----------------------------------------------------------------------------
(* Time calculation functions *)

Min(a, b) == IF a < b THEN a ELSE b
Max(a, b) == IF a > b THEN a ELSE b

isActivityRunning(activity) ==
  /\ activity.type = "time"
  /\ "entries" \in DOMAIN activity
  /\ Len(activity.entries) # 0
  /\ activity.entries[Len(activity.entries)].end = Null

\* entryOverlap without the clipping of the entry's end to the range.
entryOverlapUnclippedEnd(entry, rangeStart, rangeEnd) ==
  IF entry.end = Null THEN 0
  ELSE IF entry.end < rangeStart \/ entry.start > rangeEnd THEN 0
  ELSE entry.end - Max(entry.start, rangeStart)

\* entryOverlap with an open entry taken to run until now.
entryOverlapOpenUntilNow(entry, rangeStart, rangeEnd) ==
  LET end == IF entry.end = Null THEN now ELSE entry.end
  IN IF end < rangeStart \/ entry.start > rangeEnd THEN 0
     ELSE Min(end, rangeEnd) - Max(entry.start, rangeStart)

\* What one entry adds to the running total of a range sum.
entryOverlap(entry, rangeStart, rangeEnd) ==
  IF entry.end = Null THEN 0
  ELSE IF entry.end < rangeStart \/ entry.start > rangeEnd THEN 0
  ELSE Min(entry.end, rangeEnd) - Max(entry.start, rangeStart)

RECURSIVE reduceEntries(_, _, _, _, _)
reduceEntries(entries, i, total, rangeStart, rangeEnd) ==
  IF i > Len(entries) THEN total
  ELSE reduceEntries(entries, i + 1,
                     total + entryOverlap(entries[i], rangeStart, rangeEnd),
                     rangeStart, rangeEnd)

\* main process: calculateTimeInRange(entries, rangeStart, rangeEnd).
calculateTimeInRange(entries, rangeStart, rangeEnd) ==
  IF Len(entries) = 0 THEN 0
  ELSE reduceEntries(entries, 1, 0, rangeStart, rangeEnd)

\* calculateTimeInRange(activity.entries, ...) at the call sites of the
\* progress builders: an undefined entries container gives 0.
timeOfActivity(activity, rangeStart, rangeEnd) ==
  IF "entries" \notin DOMAIN activity THEN 0
  ELSE calculateTimeInRange(activity.entries, rangeStart, rangeEnd)

\* Object.keys(activities), as a list.
AllIds == <<"a1", "a2", "a3">>

objectKeys(obj) == SelectSeq(AllIds, LAMBDA id : id \in DOMAIN obj)

\* Goal engine: the inner loop of calculateTimeInRange over one activity.
RECURSIVE sumEntries(_, _, _, _, _)
sumEntries(entries, i, totalMs, rangeStart, rangeEnd) ==
  IF i > Len(entries) THEN totalMs
  ELSE LET entry == entries[i] IN
    IF entry.end = Null
      THEN sumEntries(entries, i + 1, totalMs, rangeStart, rangeEnd)
    ELSE IF entry.end < rangeStart \/ entry.start > rangeEnd
      THEN sumEntries(entries, i + 1, totalMs, rangeStart, rangeEnd)
    ELSE sumEntries(entries, i + 1,
                    totalMs + (Min(entry.end, rangeEnd) - Max(entry.start, rangeStart)),
                    rangeStart, rangeEnd)

RECURSIVE sumActivities(_, _, _, _, _, _)
sumActivities(acts, idsToCheck, k, totalMs, rangeStart, rangeEnd) ==
  IF k > Len(idsToCheck) THEN totalMs
  ELSE LET id == idsToCheck[k] IN
    IF \/ id \notin DOMAIN acts
       \/ acts[id].type # "time"
       \/ "entries" \notin DOMAIN acts[id]
      THEN sumActivities(acts, idsToCheck, k + 1, totalMs, rangeStart, rangeEnd)
    ELSE sumActivities(acts, idsToCheck, k + 1,
                       sumEntries(acts[id].entries, 1, totalMs, rangeStart, rangeEnd),
                       rangeStart, rangeEnd)

\* calculateTimeInRangeOfIds without the fallback of an empty id list to
\* all activities.
calculateTimeInRangeOfListedIds(acts, activityIds, rangeStart, rangeEnd) ==
  sumActivities(acts, activityIds, 1, 0, rangeStart, rangeEnd)

\* Goal engine: calculateTimeInRange(activities, activityIds, rangeStart,
\* rangeEnd); activityIds is a list, empty for "all activities".
calculateTimeInRangeOfIds(acts, activityIds, rangeStart, rangeEnd) ==
  LET idsToCheck == IF Len(activityIds) > 0 THEN activityIds ELSE objectKeys(acts)
  IN sumActivities(acts, idsToCheck, 1, 0, rangeStart, rangeEnd)

----------------------------------------------------------------------------
(* Check counting *)

\* checkedAt counting every key that is present, whatever its value.
checkedAtKeyPresent(checks, dateStr) == dateStr \in DOMAIN checks

\* checks[dateStr] === true: a key that is absent or mapped to false is not
\* checked.
checkedAt(checks, dateStr) ==
  /\ dateStr \in DOMAIN checks
  /\ checks[dateStr] = TRUE

\* activity.checks?.[dateStr] === true
isChecked(activity, dateStr) ==
  /\ "checks" \in DOMAIN activity
  /\ checkedAt(activity.checks, dateStr)

\* main process: the loop of countChecksInRange(checks, startDate, endDate).
RECURSIVE countLoop(_, _, _, _, _)
countLoop(checks, current, endDate, checked, total) ==
  IF current <= endDate
    THEN LET dateStr == getISODate(current) IN
      countLoop(checks, setDate(current, getDate(current) + 1), endDate,
                IF checkedAt(checks, dateStr) THEN checked + 1 ELSE checked,
                total + 1)
    ELSE [checked |-> checked, total |-> total]

countChecksInRange(checks, startDate, endDate) ==
  countLoop(checks, startDate, endDate, 0, 0)

\* The keys the loop of countChecksInRange looks up, in order.
RECURSIVE lookedUpKeys(_, _, _)
lookedUpKeys(current, endDate, keys) ==
  IF current <= endDate
    THEN lookedUpKeys(setDate(current, getDate(current) + 1), endDate,
                      Append(keys, getISODate(current)))
    ELSE keys

\* countChecksInRange(activity.checks, ...) at its call site: an undefined
\* checks container gives {checked: 0, total: 0}.
checksOfActivity(activity, startDate, endDate) ==
  IF "checks" \notin DOMAIN activity THEN [checked |-> 0, total |-> 0]
  ELSE countChecksInRange(activity.checks, startDate, endDate)

----------------------------------------------------------------------------
(* Progress data functions (the activity name, copied unchanged into each  *)
(* record, is left out)                                                    *)

\* The day keys of a period: getISODate of each step from start to end.
RECURSIVE dayKeys(_, _, _)
dayKeys(current, end, days) ==
  IF current <= end
    THEN dayKeys(setDate(current, getDate(current) + 1), end,
                 Append(days, getISODate(current)))
    ELSE days

SeqRange(seq) == {seq[i] : i \in 1 .. Len(seq)}

RECURSIVE sumOfDays(_, _, _)
sumOfDays(activity, days, i) ==
  IF i > Len(days) THEN 0
  ELSE LET d == ParseDate(days[i]) IN
    timeOfActivity(activity, getDayStart(d), getDayEnd(d))
      + sumOfDays(activity, days, i + 1)

dailyTotalsOf(activity, days) ==
  [dateStr \in SeqRange(days) |->
     LET d == ParseDate(dateStr) IN
     timeOfActivity(activity, getDayStart(d), getDayEnd(d))]

dailyChecksOf(activity, days) ==
  [dateStr \in SeqRange(days) |-> isChecked(activity, dateStr)]

checkedCountOf(activity, days) ==
  Cardinality({i \in 1 .. Len(days) : isChecked(activity, days[i])})

getDailyProgress(data, date) ==
  LET dayStart == getDayStart(date)
      dayEnd   == getDayEnd(date)
      dateStr  == getISODate(date)
  IN [period |-> "day",
      date |-> dateStr,
      activities |->
        [id \in DOMAIN data |->
           IF data[id].type = "time"
             THEN [type |-> "time",
                   time |-> timeOfActivity(data[id], dayStart, dayEnd),
                   running |-> isActivityRunning(data[id])]
             ELSE [type |-> "check",
                   checked |-> isChecked(data[id], dateStr)]]]

getWeeklyProgress(data, date) ==
  LET weekStart == getWeekStart(date)
      weekEnd   == getWeekEnd(date)
      days      == dayKeys(weekStart, weekEnd, <<>>)
  IN [period |-> "week",
      startDate |-> getISODate(weekStart),
      endDate |-> getISODate(weekEnd),
      days |-> days,
      activities |->
        [id \in DOMAIN data |->
           IF data[id].type = "time"
             THEN [type |-> "time",
                   dailyTotals |-> dailyTotalsOf(data[id], days),
                   weekTotal |-> sumOfDays(data[id], days, 1),
                   running |-> isActivityRunning(data[id])]
             ELSE [type |-> "check",
                   dailyChecks |-> dailyChecksOf(data[id], days),
                   checkedCount |-> checkedCountOf(data[id], days),
                   totalDays |-> Len(days)]]]

getMonthlyProgress(data, date) ==
  LET monthStart == getMonthStart(date)
      monthEnd   == getMonthEnd(date)
      days       == dayKeys(monthStart, monthEnd, <<>>)
  IN [period |-> "month",
      year |-> getFullYear(date),
      month |-> getMonth(date),
      startDate |-> getISODate(monthStart),
      endDate |-> getISODate(monthEnd),
      days |-> days,
      firstDayOfWeek |-> getDay(monthStart),
      activities |->
        [id \in DOMAIN data |->
           IF data[id].type = "time"
             THEN [type |-> "time",
                   dailyTotals |-> dailyTotalsOf(data[id], days),
                   monthTotal |-> sumOfDays(data[id], days, 1),
                   running |-> isActivityRunning(data[id])]
             ELSE [type |-> "check",
                   dailyChecks |-> dailyChecksOf(data[id], days),
                   checkedCount |-> checkedCountOf(data[id], days),
                   totalDays |-> Len(days)]]]

\* The months of the year view: local midnight of the 1st through
\* 23:59:59.999 of the last day.
monthStartOf(year, m) == MakeLocal(MakeDay(year, m, 1), 0)
monthEndOf(year, m) == MakeLocal(MakeDay(year, m + 1, 0), DayUnits - 1)

RECURSIVE sumOfMonths(_, _, _)
sumOfMonths(activity, year, m) ==
  IF m >= 12 THEN 0
  ELSE timeOfActivity(activity, monthStartOf(year, m), monthEndOf(year, m))
         + sumOfMonths(activity, year, m + 1)

RECURSIVE sumOfMonthChecks(_, _, _)
sumOfMonthChecks(activity, year, m) ==
  IF m >= 12 THEN [checked |-> 0, total |-> 0]
  ELSE LET c    == checksOfActivity(activity, monthStartOf(year, m), monthEndOf(year, m))
           rest == sumOfMonthChecks(activity, year, m + 1)
       IN [checked |-> c.checked + rest.checked, total |-> c.total + rest.total]

getYearlyProgress(data, date) ==
  LET year == getFullYear(date)
  IN [period |-> "year",
      year |-> year,
      months |-> [m \in 0 .. 11 |-> m],
      activities |->
        [id \in DOMAIN data |->
           IF data[id].type = "time"
             THEN [type |-> "time",
                   monthlyTotals |->
                     [m \in 0 .. 11 |->
                        timeOfActivity(data[id], monthStartOf(year, m), monthEndOf(year, m))],
                   yearTotal |-> sumOfMonths(data[id], year, 0),
                   running |-> isActivityRunning(data[id])]
             ELSE [type |-> "check",
                   monthlyChecks |->
                     [m \in 0 .. 11 |->
                        checksOfActivity(data[id], monthStartOf(year, m), monthEndOf(year, m))],
                   yearCheckedCount |-> sumOfMonthChecks(data[id], year, 0).checked,
                   yearTotalDays |-> sumOfMonthChecks(data[id], year, 0).total]]]

----------------------------------------------------------------------------
(* Goal engine: check counting over a set of activities *)

RECURSIVE countDays(_, _, _, _)
countDays(checks, current, endDate, count) ==
  IF current <= endDate
    THEN LET dateStr == getISODate(current) IN
      countDays(checks, setDate(current, getDate(current) + 1), endDate,
                IF checkedAt(checks, dateStr) THEN count + 1 ELSE count)
    ELSE count

RECURSIVE countActivities(_, _, _, _, _, _)
countActivities(acts, idsToCheck, k, count, startDate, endDate) ==
  IF k > Len(idsToCheck) THEN count
  ELSE LET id == idsToCheck[k] IN
    IF \/ id \notin DOMAIN acts
       \/ acts[id].type # "check"
       \/ "checks" \notin DOMAIN acts[id]
      THEN countActivities(acts, idsToCheck, k + 1, count, startDate, endDate)
    ELSE countActivities(acts, idsToCheck, k + 1,
                         countDays(acts[id].checks, startDate, endDate, count),
                         startDate, endDate)

\* Goal engine: countChecksInRange(activities, activityIds, startDate,
\* endDate).
countChecksInRangeOfIds(acts, activityIds, startDate, endDate) ==
  LET idsToCheck ==
        IF Len(activityIds) > 0 THEN activityIds
        ELSE SelectSeq(objectKeys(acts), LAMBDA id : acts[id].type = "check")
  IN countActivities(acts, idsToCheck, 1, 0, startDate, endDate)

----------------------------------------------------------------------------
(* Streak calculation *)

MaxLookbackDays == 365

dayHasActivity(acts, activityIds, dateStr, streakType) ==
  LET date       == ParseDate(dateStr)
      dayStart   == getDayStart(date)
      dayEnd     == getDayEnd(date)
      idsToCheck == IF Len(activityIds) > 0 THEN activityIds ELSE objectKeys(acts)
  IN IF streakType = "time"
       THEN \E k \in 1 .. Len(idsToCheck) :
              LET id == idsToCheck[k] IN
              /\ id \in DOMAIN acts
              /\ acts[id].type = "time"
              /\ "entries" \in DOMAIN acts[id]
              /\ \E i \in 1 .. Len(acts[id].entries) :
                   LET entry == acts[id].entries[i] IN
                   /\ entry.end # Null
                   /\ entry.end >= dayStart
                   /\ entry.start <= dayEnd
       ELSE \E k \in 1 .. Len(idsToCheck) :
              LET id == idsToCheck[k] IN
              /\ id \in DOMAIN acts
              /\ acts[id].type = "check"
              /\ "checks" \in DOMAIN acts[id]
              /\ checkedAt(acts[id].checks, dateStr)

\* The date one calendar day before: current.setDate(current.getDate() - 1).
dayBefore(current) == setDate(current, getDate(current) - 1)

\* The state of the walk at the top of an iteration of while (true):
\* `current`, `streak`, and whether the loop has been left.
startOfWalk(today) == [current |-> today, streak |-> 0, done |-> FALSE]

\* One iteration without the grace rule: a day without activity ends the
\* walk.
streakStepNoGrace(acts, activityIds, streakType, today, st) ==
  IF dayHasActivity(acts, activityIds, getISODate(st.current), streakType)
    THEN LET next == dayBefore(st.current) IN
      [current |-> next, streak |-> st.streak + 1,
       done |-> (today - next) \div DayUnits > MaxLookbackDays]
  ELSE [current |-> st.current, streak |-> st.streak, done |-> TRUE]

\* One iteration with a grace rule that also looks at the day before
\* yesterday.
streakStepLongGrace(acts, activityIds, streakType, today, st) ==
  IF dayHasActivity(acts, activityIds, getISODate(st.current), streakType)
    THEN LET next == dayBefore(st.current) IN
      [current |-> next, streak |-> st.streak + 1,
       done |-> (today - next) \div DayUnits > MaxLookbackDays]
  ELSE IF st.streak = 0
         /\ dayHasActivity(acts, activityIds,
                           getISODate(dayBefore(st.current)), streakType)
    THEN [current |-> dayBefore(dayBefore(st.current)), streak |-> 1, done |-> FALSE]
  ELSE IF st.streak = 0
         /\ dayHasActivity(acts, activityIds,
                           getISODate(dayBefore(dayBefore(st.current))), streakType)
    THEN [current |-> dayBefore(dayBefore(dayBefore(st.current))),
          streak |-> 1, done |-> FALSE]
  ELSE [current |-> st.current, streak |-> st.streak, done |-> TRUE]

\* One iteration with the grace rule applied at every day without
\* activity, not only at today (the test streak === 0 left out).
streakStepGapTolerant(acts, activityIds, streakType, today, st) ==
  IF dayHasActivity(acts, activityIds, getISODate(st.current), streakType)
    THEN LET next == dayBefore(st.current) IN
      [current |-> next, streak |-> st.streak + 1,
       done |-> (today - next) \div DayUnits > MaxLookbackDays]
  ELSE IF dayHasActivity(acts, activityIds,
                         getISODate(dayBefore(st.current)), streakType)
    THEN [current |-> dayBefore(dayBefore(st.current)),
          streak |-> st.streak + 1, done |-> FALSE]
  ELSE [current |-> st.current, streak |-> st.streak, done |-> TRUE]

\* One iteration without the safety limit on the lookback.
streakStepNoLookbackLimit(acts, activityIds, streakType, today, st) ==
  CHOOSE after \in
    { IF dayHasActivity(acts, activityIds, getISODate(current), streakType)
        THEN [current |-> yesterday, streak |-> st.streak + 1, done |-> FALSE]
      ELSE IF st.streak = 0
        THEN IF dayHasActivity(acts, activityIds, getISODate(yesterday), streakType)
          THEN [current |-> dayBefore(yesterday), streak |-> 1, done |-> FALSE]
          ELSE [current |-> yesterday, streak |-> 0, done |-> TRUE]
      ELSE [current |-> current, streak |-> st.streak, done |-> TRUE] :
      current \in {st.current}, yesterday \in {dayBefore(st.current)} } : TRUE

\* One iteration of the while (true) loop of calculateStreak, from the
\* state `st` of the walk to the state after the iteration. `current` is
\* the date at the top of the iteration, `yesterday` the date after one
\* current.setDate(current.getDate() - 1); each is computed once.
streakStep(acts, activityIds, streakType, today, st) ==
  CHOOSE after \in
    { IF dayHasActivity(acts, activityIds, getISODate(current), streakType)
        THEN [current |-> yesterday, streak |-> st.streak + 1,
              done |-> (today - yesterday) \div DayUnits > MaxLookbackDays]
      ELSE IF st.streak = 0
        THEN IF dayHasActivity(acts, activityIds, getISODate(yesterday), streakType)
          THEN [current |-> dayBefore(yesterday), streak |-> 1, done |-> FALSE]
          ELSE [current |-> yesterday, streak |-> 0, done |-> TRUE]
      ELSE [current |-> current, streak |-> st.streak, done |-> TRUE] :
      current \in {st.current}, yesterday \in {dayBefore(st.current)} } : TRUE

\* The loop run to its end.
RECURSIVE streakLoop(_, _, _, _, _)
streakLoop(acts, activityIds, streakType, today, st) ==
  IF st.done THEN st.streak
  ELSE streakLoop(acts, activityIds, streakType, today,
                  streakStep(acts, activityIds, streakType, today, st))

calculateStreak(acts, activityIds, streakType) ==
  streakLoop(acts, activityIds, streakType, now, startOfWalk(now))

----------------------------------------------------------------------------
(* Goal evaluation *)

(* Numbers are IEEE 754 doubles: a positive double is a significand of      *)
(* Precision bits (most significant first) and the exponent of its last    *)
(* bit; every operation rounds its exact result to the nearest such        *)
(* number, ties to the even significand.                                   *)

Precision == 53

\* The binary digits of a natural number, most significant first.
RECURSIVE BitsOf(_)
BitsOf(n) == IF n = 0 THEN <<>> ELSE Append(BitsOf(n \div 2), n % 2)

\* The natural number of the first i digits of a sequence of binary digits.
RECURSIVE ValueOf(_, _)
ValueOf(bits, i) ==
  IF i = 0 THEN 0 ELSE 2 * ValueOf(bits, i - 1) + bits[i]

\* A sequence of binary digits plus one: the last 0 becomes 1 and the
\* digits after it 0; a sequence of ones grows by one digit.
Increment(bits) ==
  LET zeroAt == {i \in 1 .. Len(bits) : bits[i] = 0}
  IN IF zeroAt = {} THEN <<1>> \o [i \in 1 .. Len(bits) |-> 0]
     ELSE LET j == CHOOSE i \in zeroAt : \A k \in zeroAt : k <= i
          IN [i \in 1 .. Len(bits) |->
                IF i < j THEN bits[i] ELSE IF i = j THEN 1 ELSE 0]

\* The exact value bits * 2^e, with `sticky` telling that the exact value
\* has further nonzero digits below the last of `bits`, rounded to a double.
RoundToDouble(bits, e, sticky) ==
  IF Len(bits) <= Precision THEN [m |-> bits, e |-> e]
  ELSE LET kept   == SubSeq(bits, 1, Precision)
           guard  == bits[Precision + 1]
           below  == sticky \/ \E i \in Precision + 2 .. Len(bits) : bits[i] = 1
           e2     == e + Len(bits) - Precision
           up     == guard = 1 /\ (below \/ kept[Precision] = 1)
           raised == Increment(kept)
       IN IF ~ up THEN [m |-> kept, e |-> e2]
          ELSE IF Len(raised) > Precision
            THEN [m |-> SubSeq(raised, 1, Precision), e |-> e2 + 1]
          ELSE [m |-> raised, e |-> e2]

\* The digits of a / b from its first nonzero digit on, Precision + 1 of
\* them, by long division: `acc` the digits so far, `r` the remainder,
\* `zeros` the zero digits after the point that precede the first digit.
RECURSIVE DivideDigits(_, _, _, _)
DivideDigits(acc, r, b, zeros) ==
  IF Len(acc) > Precision THEN [bits |-> acc, rem |-> r, zeros |-> zeros]
  ELSE CHOOSE digits \in
    { IF acc = <<>> /\ bit = 0 THEN DivideDigits(acc, r2, b, zeros + 1)
      ELSE DivideDigits(acc2, r2, b, zeros) :
      bit \in {IF 2 * r >= b THEN 1 ELSE 0},
      r2 \in {IF 2 * r >= b THEN 2 * r - b ELSE 2 * r},
      acc2 \in {Append(acc, IF 2 * r >= b THEN 1 ELSE 0)} } : TRUE

\* a / b for integers a > 0, b > 0.
Divide(a, b) ==
  LET whole  == BitsOf(a \div b)
      digits == DivideDigits(whole, a % b, b, 0)
  IN RoundToDouble(digits.bits,
                   - (digits.zeros + Len(digits.bits) - Len(whole)),
                   digits.rem # 0)

\* The digits of bits * k for a small natural number k.
RECURSIVE TimesDigits(_, _, _, _, _)
TimesDigits(bits, k, i, carry, acc) ==
  IF i = 0 THEN BitsOf(carry) \o acc
  ELSE CHOOSE digits \in
    { TimesDigits(bits, k, i - 1, carry2, acc2) :
      carry2 \in {(bits[i] * k + carry) \div 2},
      acc2 \in {<<(bits[i] * k + carry) % 2>> \o acc} } : TRUE

\* x * k for a positive double x and a small natural number k.
Times(x, k) == RoundToDouble(TimesDigits(x.m, k, Len(x.m), 0, <<>>), x.e, FALSE)

\* Math.round of a positive double below 2^31 and of its negative: the
\* nearest integer, a tie going to the larger one.
MathRound(x, negative) ==
  LET wholeLen == Len(x.m) + x.e
      whole    == IF wholeLen <= 0 THEN 0 ELSE ValueOf(x.m, wholeLen)
      half     == wholeLen >= 0 /\ wholeLen < Len(x.m) /\ x.m[wholeLen + 1] = 1
      rest     == \E i \in Max(wholeLen + 2, 1) .. Len(x.m) : x.m[i] = 1
  IN IF negative
       THEN IF half /\ rest THEN - (whole + 1) ELSE - whole
     ELSE IF half THEN whole + 1 ELSE whole

\* Math.round((current / target) * 100) for target # 0.
roundedPercent(current, target) ==
  IF current = 0 THEN 0
  ELSE LET a == IF current < 0 THEN - current ELSE current
           b == IF target < 0 THEN - target ELSE target
       IN MathRound(Times(Divide(a, b), 100), (current < 0) # (target < 0))

\* The numbers that are not finite: NaN, and -Infinity, which is below
\* every finite number of the model.
NaN == -2000000001
NegativeInfinity == -2000000000

\* Math.min(100, Math.round(current / target * 100)); a zero target makes
\* the quotient Infinity (the minimum is 100 then), NaN or -Infinity.
progressPercentage(current, target) ==
  IF target = 0
    THEN IF current > 0 THEN 100
         ELSE IF current = 0 THEN NaN ELSE NegativeInfinity
  ELSE Min(100, roundedPercent(current, target))

\* The activity id of the goal left out: every activity is looked at.
goalActivityIdsNone(config) == <<>>

\* config.activityId ? [config.activityId] : []
goalActivityIds(config) ==
  IF config.activityId # "" THEN <<config.activityId>> ELSE <<>>

\* evaluateTimeGoal with achieved only above the target.
evaluateTimeGoalStrict(goal, acts) ==
  LET config         == goal.config
      range          == getPeriodRange(config.period, now)
      totalMs        == calculateTimeInRangeOfIds(acts, goalActivityIds(config),
                                                  range.start, range.end)
      currentMinutes == totalMs \div MinuteUnits
      targetMinutes  == config.targetMinutes
  IN [achieved |-> currentMinutes > targetMinutes,
      current |-> currentMinutes,
      target |-> targetMinutes,
      progressPercentage |-> progressPercentage(currentMinutes, targetMinutes),
      unit |-> "minutes"]

\* evaluateTimeGoal over the period up to the instant of the call only.
evaluateTimeGoalUpToNow(goal, acts) ==
  LET config         == goal.config
      range          == getPeriodRange(config.period, now)
      totalMs        == calculateTimeInRangeOfIds(acts, goalActivityIds(config),
                                                  range.start, Min(range.end, now))
      currentMinutes == totalMs \div MinuteUnits
      targetMinutes  == config.targetMinutes
  IN [achieved |-> currentMinutes >= targetMinutes,
      current |-> currentMinutes,
      target |-> targetMinutes,
      progressPercentage |-> progressPercentage(currentMinutes, targetMinutes),
      unit |-> "minutes"]

evaluateTimeGoal(goal, acts) ==
  LET config  == goal.config
      totalMs == CHOOSE ms \in {
                   calculateTimeInRangeOfIds(acts, goalActivityIds(config),
                                             range.start, range.end) :
                   range \in {getPeriodRange(config.period, now)} } : TRUE
  IN CHOOSE result \in {
       [achieved |-> currentMinutes >= targetMinutes,
        current |-> currentMinutes,
        target |-> targetMinutes,
        progressPercentage |-> progressPercentage(currentMinutes, targetMinutes),
        unit |-> "minutes"] :
       currentMinutes \in {totalMs \div MinuteUnits},
       targetMinutes \in {config.targetMinutes} } : TRUE

evaluateCountGoal(goal, acts) ==
  LET config == goal.config
  IN CHOOSE result \in {
       [achieved |-> currentCount >= targetCount,
        current |-> currentCount,
        target |-> targetCount,
        progressPercentage |-> progressPercentage(currentCount, targetCount),
        unit |-> "completions"] :
       currentCount \in {countChecksInRangeOfIds(acts, goalActivityIds(config),
                                                 range.start, range.end) :
                         range \in {getPeriodRange(config.period, now)}},
       targetCount \in {config.targetCount} } : TRUE

\* evaluateStreakGoal with the streak always computed in check mode.
evaluateStreakGoalCheckMode(goal, acts) ==
  LET config        == goal.config
      currentStreak == calculateStreak(acts, goalActivityIds(config), "check")
      targetStreak  == config.targetDays
  IN [achieved |-> currentStreak >= targetStreak,
      current |-> currentStreak,
      target |-> targetStreak,
      progressPercentage |-> progressPercentage(currentStreak, targetStreak),
      unit |-> "days"]

evaluateStreakGoal(goal, acts) ==
  LET config     == goal.config
      streakType == IF config.activityId # "" /\ config.activityId \in DOMAIN acts
                      THEN acts[config.activityId].type ELSE "check"
  IN CHOOSE result \in {
       [achieved |-> currentStreak >= targetStreak,
        current |-> currentStreak,
        target |-> targetStreak,
        progressPercentage |-> progressPercentage(currentStreak, targetStreak),
        unit |-> "days"] :
       currentStreak \in {calculateStreak(acts, goalActivityIds(config), streakType)},
       targetStreak \in {config.targetDays} } : TRUE

\* evaluateGoal with an unknown type evaluated as a goal that is met.
evaluateGoalDefaultMet(goal, acts) ==
  CASE goal.type = "time"   -> evaluateTimeGoal(goal, acts)
    [] goal.type = "count"  -> evaluateCountGoal(goal, acts)
    [] goal.type = "streak" -> evaluateStreakGoal(goal, acts)
    [] OTHER -> [achieved |-> TRUE, current |-> 0, target |-> 0,
                 progressPercentage |-> 100, unit |-> "unknown"]

evaluateGoal(goal, acts) ==
  CASE goal.type = "time"   -> evaluateTimeGoal(goal, acts)
    [] goal.type = "count"  -> evaluateCountGoal(goal, acts)
    [] goal.type = "streak" -> evaluateStreakGoal(goal, acts)
    [] OTHER -> [achieved |-> FALSE, current |-> 0, target |-> 0,
                 progressPercentage |-> 0, unit |-> "unknown"]

\* The results keyed by goal id, one for every entry of the goals object.
evaluateAllGoals(goals, acts) ==
  [goalId \in DOMAIN goals |-> evaluateGoal(goals[goalId], acts)]

----------------------------------------------------------------------------
(* Range specification: the two range sums applied to bounded snapshots    *)

MaxEntries == 2

\* Instants of entries (E1 < E2 < E3) and of range ends (R0 < E1 < R1 < E2
\* < R2 < E3 < R3), around midnight UTC of 1970-12-31 and 1971-01-01.
E1 == DaysFromCivil(1970, 12, 30) * DayUnits + 84600
E2 == DaysFromCivil(1970, 12, 31) * DayUnits + 630
E3 == DaysFromCivil(1971, 1, 1) * DayUnits + 45

EntryTimes == {E1, E2, E3}

RangeTimes == {E1 - 600, E1 + 300, E2 + 3600, E3 + 600}

\* Every entry over the instants: closed (also zero-length and with end
\* before start, as a manual edit can leave it) or open.
Entries == [start : EntryTimes, end : EntryTimes \cup {Null}]

EntrySeqs == UNION {[1 .. n -> Entries] : n \in 0 .. MaxEntries}

Ranges == {r \in [start : RangeTimes, end : RangeTimes] : r.start <= r.end}

ClosedEntry == [start |-> E1, end |-> E3]
OpenEntry == [start |-> E2, end |-> Null]

\* The second activity: time-typed, time-typed without an entries
\* container, check-typed, check-typed with a stray entries container.
OtherActivities ==
  { [type |-> "time", entries |-> <<ClosedEntry>>],
    [type |-> "time", entries |-> <<ClosedEntry, OpenEntry>>],
    [type |-> "time"],
    [type |-> "check", checks |-> <<>>],
    [type |-> "check", checks |-> <<>>, entries |-> <<ClosedEntry>>] }

RangeSnapshots ==
  {[id \in {"a1"} |-> [type |-> "time", entries |-> s]] : s \in EntrySeqs}
  \cup
  {[id \in {"a1", "a2"} |->
      IF id = "a1" THEN [type |-> "time", entries |-> s] ELSE other] :
     s \in {<<>>, <<ClosedEntry>>, <<[start |-> E1, end |-> E2]>>},
     other \in OtherActivities}

\* Lists of activity ids: none (all activities), one, two, an id that is
\* not in the snapshot, an id listed twice.
IdLists == {<<>>, <<"a1">>, <<"a2">>, <<"a3">>, <<"a1", "a2">>, <<"a3", "a1">>,
            <<"a1", "a1">>}

InitRange ==
  /\ activities \in RangeSnapshots
  /\ tz = 0
  /\ now = E3
  /\ call = NoCall

CallCalculateTimeInRange ==
  \E id \in DOMAIN activities, range \in Ranges :
    /\ call = NoCall
    /\ "entries" \in DOMAIN activities[id]
    /\ call' = [fn |-> "calculateTimeInRange",
                entries |-> activities[id].entries,
                rangeStart |-> range.start, rangeEnd |-> range.end,
                ret |-> calculateTimeInRange(activities[id].entries,
                                             range.start, range.end)]
    /\ UNCHANGED <<activities, tz, now>>

CallCalculateTimeInRangeOfIds ==
  \E activityIds \in IdLists, range \in Ranges :
    /\ call = NoCall
    /\ call' = [fn |-> "calculateTimeInRangeOfIds",
                activityIds |-> activityIds,
                rangeStart |-> range.start, rangeEnd |-> range.end,
                ret |-> calculateTimeInRangeOfIds(activities, activityIds,
                                                  range.start, range.end)]
    /\ UNCHANGED <<activities, tz, now>>

NextRange == CallCalculateTimeInRange \/ CallCalculateTimeInRangeOfIds \/ Return

SpecRange == InitRange /\ [][NextRange]_vars

----------------------------------------------------------------------------
(* Sums, for the statements below *)

\* The sum of the values of a function with a finite domain.
RECURSIVE SumFn(_)
SumFn(f) ==
  IF DOMAIN f = {} THEN 0
  ELSE LET x == CHOOSE x \in DOMAIN f : TRUE
       IN f[x] + SumFn([y \in DOMAIN f \ {x} |-> f[y]])

\* The closed entries of a list that the skip test lets through.
Counted(entries, rangeStart, rangeEnd) ==
  {i \in 1 .. Len(entries) : /\ entries[i].end # Null
                             /\ ~ (\/ entries[i].end < rangeStart
                                   \/ entries[i].start > rangeEnd)}

\* The length of the intersection of [start, end] with the range.
IntersectionLength(entry, rangeStart, rangeEnd) ==
  LET lo == Max(entry.start, rangeStart)
      hi == Min(entry.end, rangeEnd)
  IN IF lo <= hi THEN hi - lo ELSE 0

\* The range sum of a list of entries, as the claim states it.
RangeSum(entries, rangeStart, rangeEnd) ==
  SumFn([i \in Counted(entries, rangeStart, rangeEnd) |->
           Min(entries[i].end, rangeEnd) - Max(entries[i].start, rangeStart)])

\* The entries a call of either range sum looks at, when it looks at one
\* list: the list passed, or the list of the one listed activity.
CallEntries ==
  IF call.fn = "calculateTimeInRange" THEN call.entries
  ELSE activities[call.activityIds[1]].entries

IsRangeCallOnOneList ==
  \/ call.fn = "calculateTimeInRange"
  \/ /\ call.fn = "calculateTimeInRangeOfIds"
     /\ Len(call.activityIds) = 1
     /\ call.activityIds[1] \in DOMAIN activities
     /\ activities[call.activityIds[1]].type = "time"
     /\ "entries" \in DOMAIN activities[call.activityIds[1]]

\* C1: calculateTimeInRange returns the sum, over the closed entries that
\* pass the skip test, of min(end, rangeEnd) - max(start, rangeStart); when
\* every closed entry has start <= end this is the sum of the lengths of
\* the intersections of the entries with the range.
RangeSumIsSumOfOverlaps ==
  IsRangeCallOnOneList =>
    /\ call.ret = RangeSum(CallEntries, call.rangeStart, call.rangeEnd)
    /\ (\A i \in 1 .. Len(CallEntries) :
          CallEntries[i].end # Null => CallEntries[i].start <= CallEntries[i].end)
       => call.ret =
            SumFn([i \in {j \in 1 .. Len(CallEntries) : CallEntries[j].end # Null} |->
                     IntersectionLength(CallEntries[i], call.rangeStart, call.rangeEnd)])

\* C1 witness: one entry cut by the start of the range (as [10,20] by
\* [15,25]): the sum is the part of the entry inside the range.
RangeSumPartialOverlap ==
  /\ call.fn = "calculateTimeInRange"
  /\ call.entries = <<[start |-> E1, end |-> E2]>>
  /\ call.rangeStart = E1 + 300
  /\ call.rangeEnd = E2 + 3600
  /\ call.ret = E2 - (E1 + 300)
  /\ call.ret > 0

\* C2 (as claimed): the range sum is never negative, and neither is the
\* amount added for any closed entry that passes the skip test, also when
\* an entry ends before it starts.
RangeSumNeverNegative ==
  IsRangeCallOnOneList =>
    /\ call.ret >= 0
    /\ \A i \in Counted(CallEntries, call.rangeStart, call.rangeEnd) :
         Min(CallEntries[i].end, call.rangeEnd)
           - Max(CallEntries[i].start, call.rangeStart) >= 0

\* Whether the activity-set range sum counts the activity of an id.
Qualifies(id) ==
  /\ id \in DOMAIN activities
  /\ activities[id].type = "time"
  /\ "entries" \in DOMAIN activities[id]

\* C4: the activity-set range sum is the sum, over the listed ids that
\* qualify (each as often as it is listed) or, for an empty list, over all
\* time-typed activities of the snapshot, of the single-list range sum.
RangeSumOfIdsIsSumOverActivities ==
  call.fn = "calculateTimeInRangeOfIds" =>
    LET ids == call.activityIds
        single(id) == calculateTimeInRange(activities[id].entries,
                                           call.rangeStart, call.rangeEnd)
    IN IF Len(ids) > 0
         THEN call.ret = SumFn([k \in {j \in 1 .. Len(ids) : Qualifies(ids[j])} |->
                                  single(ids[k])])
         ELSE call.ret = SumFn([id \in {a \in DOMAIN activities : Qualifies(a)} |->
                                  single(id)])

\* C4 witness: an empty id list over a snapshot with two time activities
\* that both overlap the range.
RangeSumOfAllActivities ==
  /\ call.fn = "calculateTimeInRangeOfIds"
  /\ call.activityIds = <<>>
  /\ DOMAIN activities = {"a1", "a2"}
  /\ Qualifies("a1") /\ Qualifies("a2")
  /\ calculateTimeInRange(activities["a1"].entries, call.rangeStart, call.rangeEnd) > 0
  /\ calculateTimeInRange(activities["a2"].entries, call.rangeStart, call.rangeEnd) > 0
  /\ call.ret > calculateTimeInRange(activities["a1"].entries, call.rangeStart, call.rangeEnd)

----------------------------------------------------------------------------
(* Progress specification: time goals and the four progress builders       *)
(* applied to bounded snapshots, in every time zone of the model           *)

ProgressEntries ==
  { [start |-> E1, end |-> E2], [start |-> E2, end |-> E3],
    [start |-> E1, end |-> Null], [start |-> E2, end |-> Null] }

ProgressEntrySeqs == UNION {[1 .. n -> ProgressEntries] : n \in 0 .. MaxEntries}

NewYearsEve == [y |-> 1970, m |-> 12, d |-> 31]

ProgressOthers ==
  { [type |-> "time", entries |-> <<ClosedEntry, OpenEntry>>],
    [type |-> "check", checks |-> [dateStr \in {NewYearsEve} |-> TRUE]] }

ProgressSnapshots ==
  {[id \in {"a1"} |-> [type |-> "time", entries |-> s]] : s \in ProgressEntrySeqs}
  \cup
  {[id \in {"a1", "a2"} |->
      IF id = "a1" THEN [type |-> "time", entries |-> s] ELSE other] :
     s \in ProgressEntrySeqs, other \in ProgressOthers}

\* The clock: 1970-12-31 12:00 UTC, 1971-01-01 00:30 UTC.
ProgressNows == {ParseDate(NewYearsEve) + 43200, E3 + 1755}

TimeGoals ==
  [type : {"time"},
   config : [activityId : {"a1", "a2", "a3", ""},
             targetMinutes : {10},
             period : Periods]]

\* The date of a progress request: new Date(dateStr) for the date string
\* sent by the renderer, new Date() without one.
ProgressDates == {now, ParseDate(NewYearsEve)}

InitProgress ==
  /\ activities \in ProgressSnapshots
  /\ tz \in TimeZones
  /\ now \in ProgressNows
  /\ call = NoCall

CallEvaluateTimeGoal ==
  \E goal \in TimeGoals :
    /\ call = NoCall
    /\ call' = [fn |-> "evaluateGoal", goal |-> goal,
                ret |-> evaluateGoal(goal, activities)]
    /\ UNCHANGED <<activities, tz, now>>

CallGetDailyProgress ==
  \E date \in ProgressDates :
    /\ call = NoCall
    /\ call' = [fn |-> "getDailyProgress", date |-> date,
                ret |-> getDailyProgress(activities, date)]
    /\ UNCHANGED <<activities, tz, now>>

CallGetWeeklyProgress ==
  \E date \in ProgressDates :
    /\ call = NoCall
    /\ call' = [fn |-> "getWeeklyProgress", date |-> date,
                ret |-> getWeeklyProgress(activities, date)]
    /\ UNCHANGED <<activities, tz, now>>

CallGetMonthlyProgress ==
  \E date \in ProgressDates :
    /\ call = NoCall
    /\ call' = [fn |-> "getMonthlyProgress", date |-> date,
                ret |-> getMonthlyProgress(activities, date)]
    /\ UNCHANGED <<activities, tz, now>>

CallGetYearlyProgress ==
  \E date \in ProgressDates :
    /\ call = NoCall
    /\ call' = [fn |-> "getYearlyProgress", date |-> date,
                ret |-> getYearlyProgress(activities, date)]
    /\ UNCHANGED <<activities, tz, now>>

NextProgress ==
  \/ CallCalculateTimeInRange
  \/ CallCalculateTimeInRangeOfIds
  \/ CallEvaluateTimeGoal
  \/ CallGetDailyProgress
  \/ CallGetWeeklyProgress
  \/ CallGetMonthlyProgress
  \/ CallGetYearlyProgress
  \/ Return

SpecProgress == InitProgress /\ [][NextProgress]_vars

----------------------------------------------------------------------------
\* A list of entries, and a snapshot, without the open entries.
ClosedOnly(entries) == SelectSeq(entries, LAMBDA e : e.end # Null)

WithoutOpenEntries(acts) ==
  [id \in DOMAIN acts |->
     IF "entries" \in DOMAIN acts[id]
       THEN [acts[id] EXCEPT !.entries = ClosedOnly(@)]
       ELSE acts[id]]

TimeIds == {id \in DOMAIN activities : activities[id].type = "time"}

\* C3: an open entry (end = null) contributes 0 to every range sum: each
\* range sum, the current value of a time goal and the time totals of each
\* progress snapshot are what they are on the snapshot without its open
\* entries.
OpenEntriesContributeNothing ==
  LET closed == WithoutOpenEntries(activities) IN
  /\ call.fn = "calculateTimeInRange" =>
       call.ret = calculateTimeInRange(ClosedOnly(call.entries),
                                       call.rangeStart, call.rangeEnd)
  /\ call.fn = "calculateTimeInRangeOfIds" =>
       call.ret = calculateTimeInRangeOfIds(closed, call.activityIds,
                                            call.rangeStart, call.rangeEnd)
  /\ call.fn = "evaluateGoal" /\ call.goal.type = "time" =>
       call.ret.current = evaluateGoal(call.goal, closed).current
  /\ call.fn = "getDailyProgress" =>
       \A id \in TimeIds :
         call.ret.activities[id].time
           = getDailyProgress(closed, call.date).activities[id].time
  /\ call.fn = "getWeeklyProgress" =>
       \A id \in TimeIds :
         LET a == call.ret.activities[id]
             b == getWeeklyProgress(closed, call.date).activities[id]
         IN a.dailyTotals = b.dailyTotals /\ a.weekTotal = b.weekTotal
  /\ call.fn = "getMonthlyProgress" =>
       \A id \in TimeIds :
         LET a == call.ret.activities[id]
             b == getMonthlyProgress(closed, call.date).activities[id]
         IN a.dailyTotals = b.dailyTotals /\ a.monthTotal = b.monthTotal
  /\ call.fn = "getYearlyProgress" =>
       \A id \in TimeIds :
         LET a == call.ret.activities[id]
             b == getYearlyProgress(closed, call.date).activities[id]
         IN a.monthlyTotals = b.monthlyTotals /\ a.yearTotal = b.yearTotal

\* C3 witness: a day view of an activity with a closed entry and an open
\* entry that both started on that day: the day's time is positive and the
\* activity is reported as running.
DailyProgressWithOpenEntry ==
  /\ call.fn = "getDailyProgress"
  /\ \E id \in TimeIds :
       /\ call.ret.activities[id].running
       /\ call.ret.activities[id].time > 0
       /\ \E i \in 1 .. Len(activities[id].entries) :
            /\ activities[id].entries[i].end = Null
            /\ activities[id].entries[i].start >= getDayStart(call.date)
            /\ activities[id].entries[i].start <= getDayEnd(call.date)

----------------------------------------------------------------------------
(* Check specification: the two check counts applied to bounded checks     *)
(* maps and ranges, in every time zone of the model                        *)

\* The date keys of the checks maps: 1970-12-27 and the days after it.
NumCheckDays == 8
MaxChecked == 3

FirstCheckDay == DaysFromCivil(1970, 12, 27)

CheckKeys == {CivilFromDays(FirstCheckDay + i) : i \in 0 .. NumCheckDays - 1}

\* Checks maps: up to MaxChecked keys mapped to true, and possibly the
\* key 1970-12-30 mapped to false (checked, then unchecked).
CheckMaps ==
  {[k \in S \cup F |-> k \in S] :
     S \in {T \in SUBSET CheckKeys : Cardinality(T) <= MaxChecked},
     F \in {{}, {CivilFromDays(FirstCheckDay + 3)}}}

Monday == DaysFromCivil(1970, 12, 28)

\* Ranges in local time: from 00:00 or 12:00 of Monday 1970-12-28 or of
\* Thursday 1970-12-31, to 00:00 or 23:59:59.999 of that Monday, that
\* Thursday or Sunday 1971-01-03.
CheckRanges ==
  {r \in [start : {MakeLocal(d, tod) : d \in {Monday, Monday + 3}, tod \in {0, 43200}},
          end : {MakeLocal(d, tod) : d \in {Monday, Monday + 3, Monday + 6},
                                     tod \in {0, DayUnits - 1}}] :
     r.start <= r.end}

CheckOthers ==
  { [type |-> "check", checks |-> [k \in {CivilFromDays(Monday)} |-> TRUE]],
    [type |-> "check"],
    [type |-> "time", entries |-> <<ClosedEntry>>],
    [type |-> "time", entries |-> <<>>,
     checks |-> [k \in {CivilFromDays(Monday)} |-> TRUE]] }

CheckSnapshots ==
  {[id \in {"a1"} |-> [type |-> "check", checks |-> c]] : c \in CheckMaps}
  \cup
  {[id \in {"a1", "a2"} |->
      IF id = "a1" THEN [type |-> "check", checks |-> c] ELSE other] :
     c \in {<<>>, [k \in {CivilFromDays(Monday), CivilFromDays(Monday + 3)} |-> TRUE]},
     other \in CheckOthers}

InitCheck ==
  /\ activities \in CheckSnapshots
  /\ tz \in TimeZones
  /\ now = MakeLocal(Monday + 3, 43200)
  /\ call = NoCall

CallCountChecksInRange ==
  \E id \in DOMAIN activities, range \in CheckRanges :
    /\ call = NoCall
    /\ "checks" \in DOMAIN activities[id]
    /\ call' = [fn |-> "countChecksInRange",
                checks |-> activities[id].checks,
                startDate |-> range.start, endDate |-> range.end,
                keys |-> lookedUpKeys(range.start, range.end, <<>>),
                ret |-> countChecksInRange(activities[id].checks,
                                           range.start, range.end)]
    /\ UNCHANGED <<activities, tz, now>>

CallCountChecksInRangeOfIds ==
  \E activityIds \in IdLists, range \in CheckRanges :
    /\ call = NoCall
    /\ call' = [fn |-> "countChecksInRangeOfIds",
                activityIds |-> activityIds,
                startDate |-> range.start, endDate |-> range.end,
                ret |-> countChecksInRangeOfIds(activities, activityIds,
                                                range.start, range.end)]
    /\ UNCHANGED <<activities, tz, now>>

NextCheck == CallCountChecksInRange \/ CallCountChecksInRangeOfIds \/ Return

SpecCheck == InitCheck /\ [][NextCheck]_vars

----------------------------------------------------------------------------
\* The number of calendar days from startDate to endDate inclusive.
CalendarDays(startDate, endDate) == LocalDay(endDate) - LocalDay(startDate) + 1

\* The key the check aggregator looks up for the k-th day of a range
\* (k = 0 for the first): the date it computes for startDate plus k days.
KeyOfDay(startDate, k) == getISODate(startDate + k * DayUnits)

\* The days of a range of n days whose key maps to exactly true.
CheckedDays(checks, startDate, n) ==
  {k \in 0 .. n - 1 : /\ KeyOfDay(startDate, k) \in DOMAIN checks
                      /\ checks[KeyOfDay(startDate, k)] = TRUE}

\* C6 (as claimed): for every range with startDate <= endDate, total is
\* the number of calendar days from startDate to endDate inclusive and
\* checked the number of those days whose key maps to exactly true.
CountIsCalendarDayCount ==
  call.fn = "countChecksInRange" /\ call.startDate <= call.endDate =>
    LET n == CalendarDays(call.startDate, call.endDate) IN
    /\ call.ret.total = n
    /\ call.ret.checked = Cardinality(CheckedDays(call.checks, call.startDate, n))
    /\ 0 <= call.ret.checked /\ call.ret.checked <= call.ret.total

\* C6 (amended): the same for every range with startDate <= endDate whose
\* start is not later in its day than its end is (as the ranges from local
\* midnight to 23:59:59.999 that the callers pass); the activity-set count
\* of one listed check activity is the checked count of its map.
CountIsDayCountOfAlignedRange ==
  /\ ( /\ call.fn = "countChecksInRange"
       /\ call.startDate <= call.endDate
       /\ LocalTimeOfDay(call.startDate) <= LocalTimeOfDay(call.endDate) ) =>
       LET n == CalendarDays(call.startDate, call.endDate) IN
       /\ call.ret.total = n
       /\ call.ret.checked = Cardinality(CheckedDays(call.checks, call.startDate, n))
       /\ 0 <= call.ret.checked /\ call.ret.checked <= call.ret.total
  /\ ( /\ call.fn = "countChecksInRangeOfIds"
       /\ Len(call.activityIds) = 1
       /\ call.activityIds[1] \in DOMAIN activities
       /\ activities[call.activityIds[1]].type = "check"
       /\ "checks" \in DOMAIN activities[call.activityIds[1]]
       /\ LocalTimeOfDay(call.startDate) <= LocalTimeOfDay(call.endDate) ) =>
       call.ret = Cardinality(CheckedDays(activities[call.activityIds[1]].checks,
                                          call.startDate,
                                          CalendarDays(call.startDate, call.endDate)))

\* C6 witness: a range of exactly 7 calendar days, 3 of them checked and
\* one unchecked again (its key maps to false), gives {checked: 3, total: 7}.
SevenDaysThreeChecked ==
  /\ call.fn = "countChecksInRange"
  /\ CalendarDays(call.startDate, call.endDate) = 7
  /\ \E k \in DOMAIN call.checks : call.checks[k] = FALSE
  /\ call.ret = [checked |-> 3, total |-> 7]

\* C7 (as claimed): the key looked up for each day of the walk is that
\* day's local calendar date; for a range that starts at local midnight of
\* day D the first key is D.
LookupKeyIsLocalDate ==
  call.fn = "countChecksInRange" =>
    \A i \in 1 .. Len(call.keys) :
      call.keys[i] = CivilFromDays(LocalDay(call.startDate) + i - 1)

----------------------------------------------------------------------------
(* Streak specification: calculateStreak applied to bounded snapshots, at  *)
(* two instants of the clock, in every time zone of the model              *)

\* The date keys of the checks maps: 1970-12-26 and the days after it,
\* through 1971-01-01.
NumStreakDays == 7

FirstStreakDay == DaysFromCivil(1970, 12, 26)

StreakKeys == {CivilFromDays(FirstStreakDay + i) : i \in 0 .. NumStreakDays - 1}

StreakMaps == {[k \in S |-> TRUE] : S \in SUBSET StreakKeys}

\* A closed entry of one hour from 10:00 UTC of a day.
HourOn(day) == [start |-> day * DayUnits + 36000, end |-> day * DayUnits + 39600]

\* Entry lists: a day with time; an entry across midnight; two days with a
\* gap of one day; one entry that covers more than the lookback of a year,
\* up to 1971-01-01 or up to 1970-12-30; a timer that is running.
StreakEntryLists ==
  { <<>>,
    <<HourOn(Monday + 2)>>,
    <<HourOn(Monday + 3)>>,
    <<[start |-> E1, end |-> E2]>>,
    <<HourOn(Monday + 1), HourOn(Monday + 3)>>,
    <<[start |-> DaysFromCivil(1969, 11, 1) * DayUnits, end |-> E3]>>,
    <<[start |-> DaysFromCivil(1969, 11, 1) * DayUnits, end |-> E1]>>,
    <<[start |-> (Monday + 3) * DayUnits + 36000, end |-> Null]>> }

StreakSnapshots ==
  {[id \in {"a1", "a2"} |->
      IF id = "a1" THEN [type |-> "check", checks |-> c]
      ELSE [type |-> "time", entries |-> e]] :
     c \in StreakMaps, e \in {<<>>, <<HourOn(Monday + 2)>>}}
  \cup
  {[id \in {"a1", "a2"} |->
      IF id = "a1" THEN [type |-> "check", checks |-> c]
      ELSE [type |-> "time", entries |-> e]] :
     c \in {<<>>, [k \in {CivilFromDays(Monday + 2)} |-> TRUE]},
     e \in StreakEntryLists}

StreakIdLists == {<<>>, <<"a1">>, <<"a2">>, <<"a3">>, <<"a1", "a2">>}

InitStreak ==
  /\ activities \in StreakSnapshots
  /\ tz \in TimeZones
  /\ now \in ProgressNows
  /\ call = NoCall

\* calculateStreak is entered: today = new Date(), current = today.
CallCalculateStreak ==
  \E activityIds \in StreakIdLists, streakType \in {"time", "check"} :
    /\ call = NoCall
    /\ call' = [fn |-> "calculateStreak",
                activityIds |-> activityIds, streakType |-> streakType,
                today |-> now, walk |-> startOfWalk(now)]
    /\ UNCHANGED <<activities, tz, now>>

\* One iteration of the loop of calculateStreak.
StreakIteration ==
  /\ call.fn = "calculateStreak"
  /\ ~ call.walk.done
  /\ call' = [call EXCEPT !.walk = streakStep(activities, call.activityIds,
                                              call.streakType, call.today, @)]
  /\ UNCHANGED <<activities, tz, now>>

\* calculateStreak returns `streak`.
StreakReturn ==
  /\ call.fn = "calculateStreak"
  /\ call.walk.done
  /\ call' = NoCall
  /\ UNCHANGED <<activities, tz, now>>

NextStreak == CallCalculateStreak \/ StreakIteration \/ StreakReturn

SpecStreak == InitStreak /\ [][NextStreak]_vars

----------------------------------------------------------------------------
\* Days are counted as the walk names them: today is the day of the date
\* key of the clock, day n - 1 is the calendar day before day n.
Today == now \div DayUnits

\* calculateStreak has returned.
StreakReturned == call.fn = "calculateStreak" /\ call.walk.done

StreakResult == call.walk.streak

\* Whether a day qualifies for the streak of the call.
DayQualifies(n) ==
  dayHasActivity(activities, call.activityIds, CivilFromDays(n), call.streakType)

\* The day the run of the streak ends at: today if today qualifies,
\* otherwise yesterday.
RunEnd == IF DayQualifies(Today) THEN Today ELSE Today - 1

\* C8: grace rule: when today does not qualify but yesterday does the
\* streak is not 0, and it is exactly 1 when the day before yesterday does
\* not qualify either.
GraceRule ==
  ( /\ StreakReturned
    /\ ~ DayQualifies(Today)
    /\ DayQualifies(Today - 1) ) =>
      /\ StreakResult >= 1
      /\ ~ DayQualifies(Today - 2) => StreakResult = 1

\* C8 witness: a check streak with yesterday checked, today and the day
\* before yesterday not: the streak is 1.
GraceStreakOfOne ==
  /\ StreakReturned
  /\ call.streakType = "check"
  /\ ~ DayQualifies(Today)
  /\ DayQualifies(Today - 1)
  /\ ~ DayQualifies(Today - 2)
  /\ StreakResult = 1

\* C9: the streak is 0 if and only if neither today nor yesterday
\* qualifies, whatever older days qualify.
ZeroIffNeitherTodayNorYesterday ==
  StreakReturned =>
    (StreakResult = 0 <=> (~ DayQualifies(Today) /\ ~ DayQualifies(Today - 1)))

\* C9 witness: the day before yesterday qualifies, yesterday and today do
\* not: the streak is 0.
ZeroStreakWithOlderDay ==
  /\ StreakReturned
  /\ ~ DayQualifies(Today)
  /\ ~ DayQualifies(Today - 1)
  /\ DayQualifies(Today - 2)
  /\ StreakResult = 0

\* C10: a streak k > 0 is the length of the maximal run of qualifying days
\* that ends at today, or at yesterday when today does not qualify: the k
\* days of the run qualify and the day before the run does not, unless the
\* run reaches the day MaxLookbackDays before today, where the walk stops.
StreakIsMaximalRun ==
  StreakReturned /\ StreakResult > 0 =>
    /\ \A j \in 0 .. StreakResult - 1 : DayQualifies(RunEnd - j)
    /\ \/ ~ DayQualifies(RunEnd - StreakResult)
       \/ RunEnd - StreakResult + 1 = Today - MaxLookbackDays

\* C10 witness: a run of two days or more, a gap of one day before it and
\* a qualifying day before the gap: the streak is the run after the gap.
RunEndsAtGap ==
  /\ StreakReturned
  /\ StreakResult >= 2
  /\ ~ DayQualifies(RunEnd - StreakResult)
  /\ DayQualifies(RunEnd - StreakResult - 1)

----------------------------------------------------------------------------
(* Termination of calculateStreak: the streak specification with snapshots *)
(* in which every day qualifies further back than the walk can go, and     *)
(* with the loop scheduled fairly (a running loop takes its next iteration)*)

FirstPerpetualDay == DaysFromCivil(1969, 11, 1)

\* A checks map with every day checked from 1969-11-01 through 1970-12-31,
\* and one through 1970-12-30.
EveryDayChecked(last) ==
  [k \in {CivilFromDays(d) : d \in FirstPerpetualDay .. last} |-> TRUE]

PerpetualSnapshots ==
  {[id \in {"a1", "a2"} |->
      IF id = "a1" THEN [type |-> "check", checks |-> EveryDayChecked(last)]
      ELSE [type |-> "time", entries |-> <<>>]] :
     last \in {DaysFromCivil(1970, 12, 30), DaysFromCivil(1970, 12, 31)}}

\* The snapshots of the streak specification without checks (among them
\* the entries longer than the lookback), and the perpetual checks.
FairSnapshots ==
  {a \in StreakSnapshots : a["a1"].checks = <<>>} \cup PerpetualSnapshots

InitStreakFair ==
  /\ activities \in FairSnapshots
  /\ tz \in TimeZones
  /\ now \in ProgressNows
  /\ call = NoCall

SpecStreakFair ==
  InitStreakFair /\ [][NextStreak]_vars /\ WF_vars(StreakIteration)

\* How many days the walk has gone back from today.
WalkDistance == (call.today - call.walk.current) \div DayUnits

\* C11: calculateStreak terminates: every call returns, and the walk never
\* goes further back than one day past the lookback of MaxLookbackDays,
\* whatever the snapshot holds, for both streak types, from today and from
\* yesterday under the grace rule.
StreakTerminates ==
  /\ [](call.fn = "calculateStreak" => WalkDistance <= MaxLookbackDays + 1)
  /\ (call.fn = "calculateStreak") ~> StreakReturned

\* C11 witness: a check streak that starts from yesterday under the grace
\* rule and is stopped by the lookback limit while the day before the run
\* still qualifies.
PerpetualStreakStopped ==
  /\ StreakReturned
  /\ call.streakType = "check"
  /\ ~ DayQualifies(Today)
  /\ StreakResult = MaxLookbackDays
  /\ DayQualifies(RunEnd - StreakResult)

----------------------------------------------------------------------------
(* Goal specification: evaluateGoal and evaluateAllGoals applied to        *)
(* bounded goals and snapshots, while the clock moves on between calls     *)

\* 1970-12-31 08:00 UTC: in every time zone of the model a time of the
\* local day 1970-12-31.
Morning == ParseDate(NewYearsEve) + 28800

\* A closed entry of n minutes from Morning.
MinutesEntry(n) == [start |-> Morning, end |-> Morning + n * MinuteUnits]

\* Entry lists of the time activity: 23, 59, 60 and 150 minutes; an hour on
\* each of two days; an entry that ends an hour before it starts; a running
\* timer; an hour in the afternoon.
GoalEntryLists ==
  { <<>>,
    <<MinutesEntry(23)>>,
    <<MinutesEntry(59)>>,
    <<MinutesEntry(60)>>,
    <<MinutesEntry(150)>>,
    <<[start |-> Morning - DayUnits, end |-> Morning - DayUnits + 3600],
      MinutesEntry(60)>>,
    <<[start |-> Morning + 3600, end |-> Morning]>>,
    <<[start |-> Morning, end |-> Null]>>,
    <<[start |-> Morning + 21600, end |-> Morning + 25200]>> }

GoalCheckMaps ==
  { <<>>,
    [k \in {NewYearsEve} |-> TRUE],
    [k \in {CivilFromDays(DaysFromCivil(1970, 12, 30))} |-> TRUE],
    [k \in {CivilFromDays(DaysFromCivil(1970, 12, 30)), NewYearsEve} |-> TRUE],
    [k \in {CivilFromDays(DaysFromCivil(1970, 12, 30)), NewYearsEve} |->
       k = NewYearsEve] }

\* a1 is the time activity, a2 the check activity; a3 is in no snapshot.
GoalSnapshots ==
  {[id \in {"a1", "a2"} |->
      IF id = "a1" THEN [type |-> "time", entries |-> e]
      ELSE [type |-> "check", checks |-> c]] :
     e \in GoalEntryLists, c \in {<<>>}}
  \cup
  {[id \in {"a1", "a2"} |->
      IF id = "a1" THEN [type |-> "time", entries |-> e]
      ELSE [type |-> "check", checks |-> c]] :
     e \in {<<>>, <<MinutesEntry(60)>>}, c \in GoalCheckMaps}

GoalPeriods == {"day", "week", "year"}

TimeGoalsOfTargets ==
  [type : {"time"},
   config : [activityId : {"a1", "a3", ""},
             targetMinutes : {-1, 0, 40, 60, 100},
             period : GoalPeriods]]

CountGoals ==
  [type : {"count"},
   config : [activityId : {"a2", "a3", ""},
             targetCount : {0, 1, 2},
             period : {"day", "week"}]]

StreakGoals ==
  [type : {"streak"},
   config : [activityId : {"a1", "a2", "a3", ""},
             targetDays : {0, 1, 2}]]

\* Goals of a type the evaluator does not know: with the config of a time
\* goal, with an empty config, without a config.
UnknownGoals ==
  { [type |-> "bogus", config |-> [activityId |-> "a1", targetMinutes |-> 60,
                                   period |-> "day"]],
    [type |-> "bogus", config |-> <<>>],
    [type |-> "bogus"] }

Goals == TimeGoalsOfTargets \cup CountGoals \cup StreakGoals \cup UnknownGoals

\* Goals objects of two goals: each an unknown goal, a time goal or a
\* streak goal.
GoalMaps ==
  [ {"g1", "g2"} ->
      { [type |-> "bogus"],
        [type |-> "time", config |-> [activityId |-> "a1", targetMinutes |-> 60,
                                      period |-> "day"]],
        [type |-> "streak", config |-> [activityId |-> "a2", targetDays |-> 2]] } ]

\* The clock: 1970-12-31 12:00 UTC and 23:30 UTC, 1971-01-01 00:30 UTC.
GoalNows == ProgressNows \cup {ParseDate(NewYearsEve) + 84600}

InitGoal ==
  /\ activities \in GoalSnapshots
  /\ tz \in TimeZones
  /\ now \in GoalNows
  /\ call = NoCall

\* evaluateGoal(goal, activities); `at` is the instant the call read from
\* the clock.
CallEvaluateGoal ==
  \E goal \in Goals :
    /\ call = NoCall
    /\ call' = [fn |-> "evaluateGoal", goal |-> goal, at |-> now,
                ret |-> evaluateGoal(goal, activities)]
    /\ UNCHANGED <<activities, tz, now>>

CallEvaluateAllGoals ==
  \E goals \in GoalMaps :
    /\ call = NoCall
    /\ call' = [fn |-> "evaluateAllGoals", goals |-> goals, at |-> now,
                ret |-> evaluateAllGoals(goals, activities)]
    /\ UNCHANGED <<activities, tz, now>>

\* Time passes.
Tick ==
  /\ \E later \in GoalNows : later > now /\ now' = later
  /\ UNCHANGED <<activities, tz, call>>

NextGoal == CallEvaluateGoal \/ CallEvaluateAllGoals \/ Tick \/ Return

SpecGoal == InitGoal /\ [][NextGoal]_vars

----------------------------------------------------------------------------
\* evaluateGoal has returned the result of a goal of one of the three
\* known types.
KnownTypes == {"time", "count", "streak"}

GoalEvaluated == call.fn = "evaluateGoal" /\ call.goal.type \in KnownTypes

\* C12: the achieved flag of a time, count or streak goal is true exactly
\* when the returned current value is at least the returned target.
AchievedIffCurrentReachesTarget ==
  GoalEvaluated => (call.ret.achieved <=> call.ret.current >= call.ret.target)

\* C12 witness: a time goal of 60 minutes with exactly 60 minutes logged is
\* achieved.
AchievedAtTarget ==
  /\ GoalEvaluated
  /\ call.goal.type = "time"
  /\ call.ret.target = 60
  /\ call.ret.current = 60
  /\ call.ret.achieved

\* The integer nearest to 100 * current / target, a half going up, in exact
\* arithmetic, for target >= 1.
NearestPercent(current, target) == (200 * current + target) \div (2 * target)

\* C13: for a goal with target >= 1 and current >= 0 the percentage is
\* min(100, round(current / target * 100)) with halves rounded up, and it
\* is 100 whenever the goal is achieved.
PercentageIsNearestPercent ==
  ( /\ GoalEvaluated
    /\ call.ret.target >= 1
    /\ call.ret.current >= 0 ) =>
      /\ call.ret.progressPercentage =
           Min(100, NearestPercent(call.ret.current, call.ret.target))
      /\ call.ret.achieved => call.ret.progressPercentage = 100

\* C14: the percentage of every goal is an integer from 0 through 100.
PercentageWithinBounds ==
  GoalEvaluated => call.ret.progressPercentage \in 0 .. 100

NeutralResult ==
  [achieved |-> FALSE, current |-> 0, target |-> 0, progressPercentage |-> 0,
   unit |-> "unknown"]

UnitOfType(type) ==
  CASE type = "time" -> "minutes"
    [] type = "count" -> "completions"
    [] type = "streak" -> "days"

\* C15: a goal of an unknown type evaluates to the neutral result, with any
\* config or none, and evaluateAllGoals returns a result for every goal id:
\* the neutral one for a goal of an unknown type, the evaluation of the
\* goal for every other.
UnknownTypeIsNeutral ==
  /\ (call.fn = "evaluateGoal" /\ call.goal.type \notin KnownTypes) =>
       call.ret = NeutralResult
  /\ call.fn = "evaluateAllGoals" =>
       /\ DOMAIN call.ret = DOMAIN call.goals
       /\ \A goalId \in DOMAIN call.goals :
            IF call.goals[goalId].type \notin KnownTypes
              THEN call.ret[goalId] = NeutralResult
            ELSE /\ call.ret[goalId].unit = UnitOfType(call.goals[goalId].type)
                 /\ call.at = now =>
                      call.ret[goalId] = evaluateGoal(call.goals[goalId], activities)

\* C15 witness: evaluateAllGoals on an unknown goal and a time goal with an
\* hour logged returns the neutral result and the hour.
UnknownGoalBesideTimeGoal ==
  /\ call.fn = "evaluateAllGoals"
  /\ call.goals["g1"].type = "bogus"
  /\ call.goals["g2"].type = "time"
  /\ call.ret["g1"] = NeutralResult
  /\ call.ret["g2"].current = 60

\* A streak goal has been evaluated and the clock has not moved since.
StreakGoalEvaluated ==
  GoalEvaluated /\ call.goal.type = "streak" /\ call.at = now

\* The activity a goal refers to, if the snapshot has it.
Referenced(goal) ==
  IF goal.config.activityId \in DOMAIN activities
    THEN {activities[goal.config.activityId]} ELSE {}

\* The mode the activity type asks for: time for a time activity, check
\* for a check activity and for an activity that is missing.
ModeOfActivity(goal) ==
  IF \E activity \in Referenced(goal) : activity.type = "time"
    THEN "time" ELSE "check"

IdsOfGoal(goal) ==
  IF goal.config.activityId = "" THEN <<>> ELSE <<goal.config.activityId>>

\* C16: the current value of a streak goal is the streak in the mode of the
\* referenced activity's type: in time mode exactly when the activity
\* exists and is time-typed, in check mode otherwise.
StreakModeFromActivityType ==
  StreakGoalEvaluated =>
    call.ret.current =
      calculateStreak(activities, IdsOfGoal(call.goal), ModeOfActivity(call.goal))

\* C16 witness: a streak goal on the time activity with time logged today
\* and yesterday and nothing checked: the streak is 2, and in check mode it
\* would be 0.
TimeStreakOfTimeActivity ==
  /\ StreakGoalEvaluated
  /\ call.goal.config.activityId = "a1"
  /\ call.ret.current = 2
  /\ calculateStreak(activities, <<"a1">>, "check") = 0

\* The goal names an activity that the snapshot does not have.
NamesAbsentActivity(goal) ==
  goal.config.activityId # "" /\ goal.config.activityId \notin DOMAIN activities

\* C17: a time, count or streak goal with target >= 1 that names an absent
\* activity evaluates to current = 0 and is not achieved, whatever other
\* activities the snapshot holds.
AbsentActivityGivesZero ==
  ( /\ GoalEvaluated
    /\ NamesAbsentActivity(call.goal)
    /\ call.ret.target >= 1 ) =>
      call.ret.current = 0 /\ ~ call.ret.achieved

\* C17 witness: a time goal on the absent activity a3 over a period in
\* which another activity has an hour logged.
AbsentActivityBesideLoggedTime ==
  /\ GoalEvaluated
  /\ call.goal.type = "time"
  /\ NamesAbsentActivity(call.goal)
  /\ call.ret.target >= 1
  /\ calculateTimeInRangeOfIds(activities, <<"a1">>,
                               getPeriodRange(call.goal.config.period, call.at).start,
                               getPeriodRange(call.goal.config.period, call.at).end) >= 3600
  /\ call.ret.current = 0

----------------------------------------------------------------------------
(* Frame specification: the aggregators, evaluators and snapshot builders  *)
(* called on argument objects (the activities, the goals, Date objects),   *)
(* with the argument objects as the call leaves them                       *)

\* The instant `current` holds when the loop of countChecksInRange is left.
RECURSIVE currentAfterLoop(_, _)
currentAfterLoop(current, endDate) ==
  IF current <= endDate
    THEN currentAfterLoop(setDate(current, getDate(current) + 1), endDate)
  ELSE current

\* The argument objects after a call, had the setters been called on the
\* Date arguments themselves and not on copies of them.
argumentsAfterSettersOnArguments(fn, args) ==
  IF "startDate" \in DOMAIN args
    THEN [args EXCEPT !.startDate = currentAfterLoop(@, args.endDate)]
  ELSE IF "date" \in DOMAIN args
    THEN [args EXCEPT !.date = getDayStart(@)]
  ELSE args

\* The argument objects after a call of one of the functions. None of them
\* assigns to a property of the activities or of a goal; every Date that a
\* setter is called on is a copy made with new Date(...) (d in getDayStart,
\* getDayEnd and getWeekStart, end in getWeekEnd, current in the loops), so
\* the arguments are as they were.
argumentsAfter(fn, args) == args

FrameSnapshots ==
  {a \in GoalSnapshots :
     /\ a["a1"].entries \in {<<>>, <<MinutesEntry(60)>>, <<[start |-> Morning, end |-> Null]>>}
     /\ DOMAIN a["a2"].checks \in {{}, {NewYearsEve}}}

FrameGoals ==
  {goal \in Goals :
     /\ "config" \in DOMAIN goal
     /\ goal.config # <<>>
     /\ goal.config.activityId \in {"a1", "a2"}
     /\ goal.type = "time" => goal.config.targetMinutes = 60 /\ goal.config.period = "week"
     /\ goal.type = "count" => goal.config.targetCount = 1 /\ goal.config.period = "day"
     /\ goal.type = "streak" => goal.config.targetDays = 2}

FrameIdLists == {<<>>, <<"a1">>, <<"a2">>}

\* Date arguments: the clock's instant, UTC midnight and local noon of
\* 1970-12-31.
FrameDates == {now, ParseDate(NewYearsEve), MakeLocal(DaysFromCivil(1970, 12, 31), 43200)}

InitFrame ==
  /\ activities \in FrameSnapshots
  /\ tz \in TimeZones
  /\ now \in ProgressNows
  /\ call = NoCall

\* A call of fn with the argument objects args, which include the
\* activities: the call returns ret and leaves the arguments as the
\* function's writes leave them.
FrameCall(fn, args, ret) ==
  /\ call = NoCall
  /\ call' = [fn |-> fn, args |-> args, after |-> argumentsAfter(fn, args),
              ret |-> ret]
  /\ activities' = argumentsAfter(fn, args).activities
  /\ UNCHANGED <<tz, now>>

FrameCalculateTimeInRange ==
  \E activityIds \in FrameIdLists, r \in Ranges :
    FrameCall("calculateTimeInRange",
              [activities |-> activities, activityIds |-> activityIds],
              calculateTimeInRangeOfIds(activities, activityIds, r.start, r.end))

FrameCountChecksInRange ==
  \E activityIds \in FrameIdLists, period \in {"day", "week"}, date \in FrameDates :
    LET range == getPeriodRange(period, date) IN
    FrameCall("countChecksInRange",
              [activities |-> activities, activityIds |-> activityIds,
               startDate |-> range.start, endDate |-> range.end],
              countChecksInRangeOfIds(activities, activityIds, range.start, range.end))

FrameCalculateStreak ==
  \E activityIds \in FrameIdLists, streakType \in {"time", "check"} :
    FrameCall("calculateStreak",
              [activities |-> activities, activityIds |-> activityIds],
              calculateStreak(activities, activityIds, streakType))

FrameEvaluateGoal ==
  \E goal \in FrameGoals :
    FrameCall("evaluateGoal", [goal |-> goal, activities |-> activities],
              evaluateGoal(goal, activities))

FrameEvaluateAllGoals ==
  \E goals \in GoalMaps :
    FrameCall("evaluateAllGoals", [goals |-> goals, activities |-> activities],
              evaluateAllGoals(goals, activities))

FrameGetDailyProgress ==
  \E date \in FrameDates :
    FrameCall("getDailyProgress", [activities |-> activities, date |-> date],
              getDailyProgress(activities, date))

FrameGetWeeklyProgress ==
  \E date \in FrameDates :
    FrameCall("getWeeklyProgress", [activities |-> activities, date |-> date],
              getWeeklyProgress(activities, date))

FrameGetMonthlyProgress ==
  \E date \in FrameDates :
    FrameCall("getMonthlyProgress", [activities |-> activities, date |-> date],
              getMonthlyProgress(activities, date))

FrameGetYearlyProgress ==
  \E date \in FrameDates :
    FrameCall("getYearlyProgress", [activities |-> activities, date |-> date],
              getYearlyProgress(activities, date))

NextFrame ==
  \/ FrameCalculateTimeInRange
  \/ FrameCountChecksInRange
  \/ FrameCalculateStreak
  \/ FrameEvaluateGoal
  \/ FrameEvaluateAllGoals
  \/ FrameGetDailyProgress
  \/ FrameGetWeeklyProgress
  \/ FrameGetMonthlyProgress
  \/ FrameGetYearlyProgress
  \/ Return

SpecFrame == InitFrame /\ [][NextFrame]_vars

----------------------------------------------------------------------------
\* C19: evaluateGoal is a function of the goal and the snapshot alone: a
\* call made now returns what the earlier call with the same goal and the
\* same snapshot returned, however much later it is made.
ResultIndependentOfClock ==
  call.fn = "evaluateGoal" => call.ret = evaluateGoal(call.goal, activities)

\* What a goal reads from the clock at the instant t: the range of its
\* current period for a time or count goal, the date key of today for a
\* streak goal, nothing for a goal of an unknown type.
ClockInput(goal, t) ==
  CASE goal.type \in {"time", "count"} -> getPeriodRange(goal.config.period, t)
    [] goal.type = "streak" -> getISODate(t)
    [] OTHER -> <<>>

\* C19 as amended: evaluateGoal is a function of the goal, the snapshot and
\* what the goal reads from the clock: a call made now returns what the
\* earlier call with the same goal and the same snapshot returned whenever
\* the goal's current period (the date key of today for a streak goal) is
\* the same at both instants.
ResultDependsOnClockByPeriodOnly ==
  ( /\ call.fn = "evaluateGoal"
    /\ ClockInput(call.goal, call.at) = ClockInput(call.goal, now) ) =>
      call.ret = evaluateGoal(call.goal, activities)

\* C19 witness: a goal with time logged in its period has been evaluated,
\* the clock has moved on within the period, and evaluating again gives the
\* same result.
SamePeriodLaterCall ==
  /\ GoalEvaluated
  /\ call.goal.type = "time"
  /\ call.at < now
  /\ ClockInput(call.goal, call.at) = ClockInput(call.goal, now)
  /\ call.ret.current = 60
  /\ call.ret = evaluateGoal(call.goal, activities)

----------------------------------------------------------------------------
(* Main process: the IPC handlers that change the data file. `acts` is the *)
(* activities object of the loaded data; each handler gives the activities *)
(* it saves and the response it returns. A handler body has no await, so   *)
(* it runs from loadData to its return as one step.                        *)

\* The function f with the key k set to the value v (added if absent).
Put(f, k, v) == [x \in DOMAIN f \cup {k} |-> IF x = k THEN v ELSE f[x]]

\* The function f without the key k.
Remove(f, k) == [x \in DOMAIN f \ {k} |-> f[x]]

Rejected(acts, error) ==
  [data |-> acts, ret |-> [success |-> FALSE, error |-> error]]

Saved(acts) == [data |-> acts, ret |-> [success |-> TRUE, data |-> acts]]

\* The activity create-activity stores; a container that is undefined is
\* not written to the file.
newActivity(id, name, type) ==
  IF type = "time" THEN [id |-> id, name |-> name, type |-> type, entries |-> <<>>]
  ELSE IF type = "check" THEN [id |-> id, name |-> name, type |-> type, checks |-> <<>>]
  ELSE [id |-> id, name |-> name, type |-> type]

createActivity(acts, id, name, type) ==
  LET saved == Put(acts, id, newActivity(id, name, type))
  IN [data |-> saved, ret |-> [success |-> TRUE, id |-> id, data |-> saved]]

\* start-activity without the test isActivityRunning(activity).
startActivityWhileRunning(acts, activityId) ==
  IF activityId \notin DOMAIN acts THEN Rejected(acts, "Activity not found")
  ELSE IF acts[activityId].type # "time"
    THEN Rejected(acts, "Not a time-based activity")
  ELSE Saved([acts EXCEPT ![activityId].entries =
                Append(@, [start |-> now, end |-> Null])])

startActivity(acts, activityId) ==
  IF activityId \notin DOMAIN acts THEN Rejected(acts, "Activity not found")
  ELSE IF acts[activityId].type # "time"
    THEN Rejected(acts, "Not a time-based activity")
  ELSE IF isActivityRunning(acts[activityId])
    THEN Rejected(acts, "Activity already running")
  ELSE Saved([acts EXCEPT ![activityId].entries =
                Append(@, [start |-> now, end |-> Null])])

\* stop-activity writing the end into the first entry instead of the last.
stopActivityFirstEntry(acts, activityId) ==
  IF activityId \notin DOMAIN acts THEN Rejected(acts, "Activity not found")
  ELSE IF acts[activityId].type # "time"
    THEN Rejected(acts, "Not a time-based activity")
  ELSE IF ~ isActivityRunning(acts[activityId])
    THEN Rejected(acts, "Activity not running")
  ELSE Saved([acts EXCEPT ![activityId].entries =
                [@ EXCEPT ![1].end = now]])

stopActivity(acts, activityId) ==
  IF activityId \notin DOMAIN acts THEN Rejected(acts, "Activity not found")
  ELSE IF acts[activityId].type # "time"
    THEN Rejected(acts, "Not a time-based activity")
  ELSE IF ~ isActivityRunning(acts[activityId])
    THEN Rejected(acts, "Activity not running")
  ELSE Saved([acts EXCEPT ![activityId].entries =
                [@ EXCEPT ![Len(@)].end = now]])

\* The null of the optional dateStr argument.
NoDateStr == [y |-> 0, m |-> 0, d |-> 0]

\* toggle-check without the test of the activity's type.
toggleCheckAnyType(acts, activityId, dateStr) ==
  IF activityId \notin DOMAIN acts THEN Rejected(acts, "Activity not found")
  ELSE LET activity == acts[activityId]
           date     == IF dateStr = NoDateStr THEN getISODate(now) ELSE dateStr
           checks   == IF "checks" \in DOMAIN activity THEN activity.checks ELSE <<>>
           checked  == ~ (date \in DOMAIN checks /\ checks[date])
           saved    == Put(acts, activityId,
                           Put(activity, "checks", Put(checks, date, checked)))
       IN [data |-> saved,
           ret |-> [success |-> TRUE, data |-> saved, checked |-> checked]]

\* toggle-check that only ever sets the date to checked.
toggleCheckSetOnly(acts, activityId, dateStr) ==
  IF activityId \notin DOMAIN acts THEN Rejected(acts, "Activity not found")
  ELSE IF acts[activityId].type # "check"
    THEN Rejected(acts, "Not a check-based activity")
  ELSE LET activity == acts[activityId]
           date     == IF dateStr = NoDateStr THEN getISODate(now) ELSE dateStr
           checks   == IF "checks" \in DOMAIN activity THEN activity.checks ELSE <<>>
           saved    == Put(acts, activityId,
                           Put(activity, "checks", Put(checks, date, TRUE)))
       IN [data |-> saved,
           ret |-> [success |-> TRUE, data |-> saved, checked |-> TRUE]]

toggleCheck(acts, activityId, dateStr) ==
  IF activityId \notin DOMAIN acts THEN Rejected(acts, "Activity not found")
  ELSE IF acts[activityId].type # "check"
    THEN Rejected(acts, "Not a check-based activity")
  ELSE LET activity == acts[activityId]
           date     == IF dateStr = NoDateStr THEN getISODate(now) ELSE dateStr
           checks   == IF "checks" \in DOMAIN activity THEN activity.checks ELSE <<>>
           checked  == ~ (date \in DOMAIN checks /\ checks[date])
           saved    == Put(acts, activityId,
                           Put(activity, "checks", Put(checks, date, checked)))
       IN [data |-> saved,
           ret |-> [success |-> TRUE, data |-> saved, checked |-> checked]]

renameActivity(acts, activityId, newName) ==
  IF activityId \notin DOMAIN acts THEN Rejected(acts, "Activity not found")
  ELSE Saved([acts EXCEPT ![activityId].name = newName])

deleteActivity(acts, activityId) ==
  IF activityId \notin DOMAIN acts THEN Rejected(acts, "Activity not found")
  ELSE Saved(Remove(acts, activityId))

\* reset-activity emptying the entries list whatever the type is.
resetActivityEntriesOnly(acts, activityId) ==
  IF activityId \notin DOMAIN acts THEN Rejected(acts, "Activity not found")
  ELSE Saved(Put(acts, activityId, Put(acts[activityId], "entries", <<>>)))

resetActivity(acts, activityId) ==
  IF activityId \notin DOMAIN acts THEN Rejected(acts, "Activity not found")
  ELSE IF acts[activityId].type = "time"
    THEN Saved(Put(acts, activityId, Put(acts[activityId], "entries", <<>>)))
  ELSE Saved(Put(acts, activityId, Put(acts[activityId], "checks", <<>>)))

----------------------------------------------------------------------------
(* Handler specification: requests to the IPC handlers in any order,       *)
(* starting from empty data, under a clock that moves forward              *)

\* The most entries an activity gets, and the ticks of the clock.
MaxTimers == 2
MaxTicks == 2

ClockStep == 10 * MinuteUnits

\* Ids generateId can return (it returns a new id at every call), and ids
\* a request can name; a3 is never created.
HandlerIds == {"a1", "a2"}
RequestIds == {"a1", "a2", "a3"}

HandlerTypes == {"time", "check"}

HandlerNames == {"n1", "n2"}

\* The dateStr of a toggle-check request: none (today), or 1970-12-30.
HandlerDateStrs == {NoDateStr, CivilFromDays(DaysFromCivil(1970, 12, 30))}

InitHandlers ==
  /\ activities = <<>>
  /\ tz = 0
  /\ now = Morning
  /\ call = NoCall

\* A request is handled: the handler saves `data` and returns `ret`;
\* `before` is the data it loaded.
Handle(fn, request, outcome) ==
  /\ call = NoCall
  /\ activities' = outcome.data
  /\ call' = [fn |-> fn, request |-> request, before |-> activities,
              ret |-> outcome.ret]
  /\ UNCHANGED <<tz, now>>

CreateActivity ==
  \E id \in HandlerIds \ DOMAIN activities, type \in HandlerTypes :
    Handle("create-activity", [name |-> "n1", type |-> type],
           createActivity(activities, id, "n1", type))

StartActivity ==
  \E activityId \in RequestIds :
    /\ ( /\ activityId \in DOMAIN activities
         /\ activities[activityId].type = "time"
         /\ ~ isActivityRunning(activities[activityId]) )
         => Len(activities[activityId].entries) < MaxTimers
    /\ Handle("start-activity", [activityId |-> activityId],
              startActivity(activities, activityId))

StopActivity ==
  \E activityId \in RequestIds :
    Handle("stop-activity", [activityId |-> activityId],
           stopActivity(activities, activityId))

ToggleCheck ==
  \E activityId \in RequestIds, dateStr \in HandlerDateStrs :
    Handle("toggle-check", [activityId |-> activityId, dateStr |-> dateStr],
           toggleCheck(activities, activityId, dateStr))

RenameActivity ==
  \E activityId \in RequestIds, newName \in HandlerNames :
    Handle("rename-activity", [activityId |-> activityId, newName |-> newName],
           renameActivity(activities, activityId, newName))

DeleteActivity ==
  \E activityId \in RequestIds :
    Handle("delete-activity", [activityId |-> activityId],
           deleteActivity(activities, activityId))

ResetActivity ==
  \E activityId \in RequestIds :
    Handle("reset-activity", [activityId |-> activityId],
           resetActivity(activities, activityId))

\* Date.now() moves on between requests.
ClockTick ==
  /\ now < Morning + MaxTicks * ClockStep
  /\ now' = now + ClockStep
  /\ UNCHANGED <<activities, tz, call>>

NextHandlers ==
  \/ CreateActivity
  \/ StartActivity
  \/ StopActivity
  \/ ToggleCheck
  \/ RenameActivity
  \/ DeleteActivity
  \/ ResetActivity
  \/ ClockTick
  \/ Return

SpecHandlers == InitHandlers /\ [][NextHandlers]_vars

\* The positions of the open entries of a list of entries.
OpenEntries(entries) == {i \in 1 .. Len(entries) : entries[i].end = Null}

\* C20: every time activity has at most one entry with end = null, and if
\* it has one it is the last entry of its list.
AtMostOneOpenEntryAndLast ==
  \A id \in DOMAIN activities :
    activities[id].type = "time" =>
      /\ Cardinality(OpenEntries(activities[id].entries)) <= 1
      /\ OpenEntries(activities[id].entries) \subseteq {Len(activities[id].entries)}

\* C20 witness: a time activity that was started, stopped and started
\* again, and then a start request that is refused: one closed entry and
\* after it the open one.
RunningAfterClosedEntry ==
  /\ call.fn = "start-activity"
  /\ ~ call.ret.success
  /\ \E id \in DOMAIN activities :
       /\ id = call.request.activityId
       /\ activities[id].type = "time"
       /\ Len(activities[id].entries) = 2
       /\ OpenEntries(activities[id].entries) = {2}

\* C21: under a clock that never goes backward, every closed entry of a
\* time activity ends at or after its start, and every entry after the
\* first starts at or after the end of the entry before it, which is closed.
EntriesChronological ==
  \A id \in DOMAIN activities :
    activities[id].type = "time" =>
      \A i \in 1 .. Len(activities[id].entries) :
        LET entries == activities[id].entries IN
        /\ entries[i].end # Null => entries[i].end >= entries[i].start
        /\ i > 1 => /\ entries[i - 1].end # Null
                    /\ entries[i].start >= entries[i - 1].end

\* C21 witness: a stop request has just closed the second entry of an
\* activity; the clock moved on after the first start and after the second.
SecondEntryClosedLater ==
  /\ call.fn = "stop-activity"
  /\ call.ret.success
  /\ LET entries == activities[call.request.activityId].entries IN
     /\ Len(entries) = 2
     /\ entries[1].start < entries[2].start
     /\ entries[2].start < entries[2].end

\* The containers an activity has.
Containers(activity) == DOMAIN activity \cap {"entries", "checks"}

\* C22: an activity created with type time has an entries list and no
\* checks map, one created with type check has a checks map and no entries
\* list, whatever requests followed; and right after a reset-activity that
\* succeeded the container of the activity's type is empty.
ContainerMatchesType ==
  /\ \A id \in DOMAIN activities :
       /\ activities[id].type = "time" => Containers(activities[id]) = {"entries"}
       /\ activities[id].type = "check" => Containers(activities[id]) = {"checks"}
  /\ (call.fn = "reset-activity" /\ call.ret.success) =>
       LET activity == activities[call.request.activityId] IN
       /\ activity.type = "time" => activity.entries = <<>>
       /\ activity.type = "check" => activity.checks = <<>>

\* C22 witness: reset-activity has emptied the checks map of a check
\* activity that had a date toggled, beside a time activity.
ChecksResetBesideTimeActivity ==
  /\ call.fn = "reset-activity"
  /\ call.ret.success
  /\ call.before[call.request.activityId].type = "check"
  /\ call.before[call.request.activityId].checks # <<>>
  /\ \E id \in DOMAIN activities : activities[id].type = "time"

----------------------------------------------------------------------------
\* The local calendar dates of the week (Monday through Sunday) and of the
\* month that contain the time value t; day number 0 is a Thursday.
LocalWeekDates(t) ==
  LET monday == LocalDay(t) - ((LocalDay(t) + 3) % 7)
  IN [i \in 1 .. 7 |-> CivilFromDays(monday + i - 1)]

LocalMonthDates(t) ==
  LET first == MakeDay(getFullYear(t), getMonth(t), 1)
      last  == MakeDay(getFullYear(t), getMonth(t) + 1, 0)
  IN [i \in 1 .. (last - first + 1) |-> CivilFromDays(first + i - 1)]

\* The range sum of a time activity over the local calendar day dateStr.
LocalDaySum(activity, dateStr) ==
  LET day == DaysFromCivil(dateStr.y, dateStr.m, dateStr.d)
  IN timeOfActivity(activity, MakeLocal(day, 0), MakeLocal(day, DayUnits - 1))

\* C23: in the week and month snapshots `days` holds the local calendar
\* dates of the period (Monday through Sunday for a week), and for every
\* time activity and every day key d, dailyTotals[d] is the range sum of
\* the activity's entries over local calendar day d, in every time zone.
DailyTotalsOfLocalDays ==
  call.fn \in {"getWeeklyProgress", "getMonthlyProgress"} =>
    /\ call.ret.days = (IF call.fn = "getWeeklyProgress"
                          THEN LocalWeekDates(call.date)
                          ELSE LocalMonthDates(call.date))
    /\ \A id \in DOMAIN activities :
         activities[id].type = "time" =>
           \A dateStr \in SeqRange(call.ret.days) :
             call.ret.activities[id].dailyTotals[dateStr]
               = LocalDaySum(activities[id], dateStr)

\* The statement of C23 in the time zone UTC only.
DailyTotalsOfLocalDaysInUTC == tz = 0 => DailyTotalsOfLocalDays

----------------------------------------------------------------------------
\* C24: the backward walk of calculateStreak is capped at MaxLookbackDays
\* iterations: at no point of the loop, and so not at the return either,
\* is the streak (one more for every iteration that found its day
\* qualifying) above MaxLookbackDays.
StreakCappedAtLookback ==
  call.fn = "calculateStreak" => call.walk.streak <= MaxLookbackDays

\* C24, amended: the walk is capped one iteration later: the test after an
\* iteration stops the loop once `current` is more than MaxLookbackDays days
\* before today, so the streak is at most MaxLookbackDays + 1.
StreakCappedAfterLookback ==
  call.fn = "calculateStreak" => call.walk.streak <= MaxLookbackDays + 1

\* C24 witness: every day qualifies, today included: the walk is stopped
\* by the limit with a streak of MaxLookbackDays + 1, the day before the
\* counted days qualifying as well.
StreakOfFullLookback ==
  /\ StreakReturned
  /\ DayQualifies(Today)
  /\ StreakResult = MaxLookbackDays + 1
  /\ DayQualifies(Today - StreakResult)

----------------------------------------------------------------------------
\* The checked dates of a snapshot: the pairs of an activity id and a date
\* with checks[date] === true.
CheckedDates(acts) ==
  UNION { {<<id, date>> : date \in {d \in DOMAIN acts[id].checks : acts[id].checks[d]}} :
          id \in {i \in DOMAIN acts : "checks" \in DOMAIN acts[i]} }

\* The date a toggle-check request is about.
DateOfRequest(dateStr) == IF dateStr = NoDateStr THEN getISODate(now) ELSE dateStr

\* The pairs in exactly one of two sets.
Difference(S, T) == (S \ T) \cup (T \ S)

\* C25: a toggle-check that succeeded has flipped the checked status of
\* its activity and date and of nothing else; and a second toggle-check for
\* the same activity and date, made on the data the first one saved, gives
\* back the checked dates there were before the first.
ToggleFlipsAndTwiceRestores ==
  /\ (call.fn = "toggle-check" /\ call.ret.success) =>
       Difference(CheckedDates(activities), CheckedDates(call.before))
         = {<<call.request.activityId, DateOfRequest(call.request.dateStr)>>}
  /\ \A activityId \in RequestIds, dateStr \in HandlerDateStrs :
       LET once  == toggleCheck(activities, activityId, dateStr)
           twice == toggleCheck(once.data, activityId, dateStr)
       IN once.ret.success =>
            /\ twice.ret.success
            /\ twice.ret.checked = ~ once.ret.checked
            /\ CheckedDates(twice.data) = CheckedDates(activities)

\* C25 witness: the second toggle-check of a date has just unchecked it,
\* while a date of another request stays checked.
DateToggledTwice ==
  /\ call.fn = "toggle-check"
  /\ call.ret.success
  /\ ~ call.ret.checked
  /\ <<call.request.activityId, DateOfRequest(call.request.dateStr)>>
       \in CheckedDates(call.before)
  /\ CheckedDates(activities) # {}

----------------------------------------------------------------------------
\* Whether the last entry of a time activity is open.
LastEntryOpen(activity) ==
  /\ activity.entries # <<>>
  /\ activity.entries[Len(activity.entries)].end = Null

\* The requests to start-activity, stop-activity and toggle-check that are
\* to be rejected on the data `acts`.
ToBeRejected(fn, activityId, acts) ==
  \/ activityId \notin DOMAIN acts
  \/ /\ activityId \in DOMAIN acts
     /\ \/ fn \in {"start-activity", "stop-activity"} /\ acts[activityId].type # "time"
        \/ fn = "toggle-check" /\ acts[activityId].type # "check"
        \/ /\ fn = "start-activity"
           /\ acts[activityId].type = "time"
           /\ LastEntryOpen(acts[activityId])
        \/ /\ fn = "stop-activity"
           /\ acts[activityId].type = "time"
           /\ ~ LastEntryOpen(acts[activityId])

\* C26: a start-activity, stop-activity or toggle-check request is rejected
\* exactly when the activity id is unknown, the activity has not the type
\* of the request, start finds the last entry open or stop finds the
\* activity not running; a rejected request returns success: false with an
\* error and leaves the saved data as it was.
RejectedExactlyAndUnchanged ==
  call.fn \in {"start-activity", "stop-activity", "toggle-check"} =>
    /\ ~ call.ret.success
         <=> ToBeRejected(call.fn, call.request.activityId, call.before)
    /\ ~ call.ret.success =>
         /\ "error" \in DOMAIN call.ret
         /\ activities = call.before

\* C26 witness: a stop request for a time activity whose two entries are
\* closed is rejected, the entries staying as they were.
StopRejectedWhenNotRunning ==
  /\ call.fn = "stop-activity"
  /\ ~ call.ret.success
  /\ call.ret.error = "Activity not running"
  /\ Len(activities[call.request.activityId].entries) = 2

----------------------------------------------------------------------------
(* Data file specification: the handlers on a data file that can be         *)
(* unreadable and whose write can fail. Here `activities` is the content   *)
(* of the file: the activities object last written, or Unreadable.         *)

\* The content of a file that readFileSync or JSON.parse throws on.
Unreadable == [unreadable |-> [type |-> "none"]]

\* loadData: the parsed file, or { activities: {} } when reading throws.
loadData(file) == IF file = Unreadable THEN <<>> ELSE file

\* saveData: the file after writeFileSync, which writes `data` or throws;
\* the error is caught and logged.
saveData(file, data, written) == IF written THEN data ELSE file

MutationRequests ==
  {"create-activity", "start-activity", "stop-activity", "toggle-check",
   "rename-activity", "delete-activity", "reset-activity"}

InitFile ==
  /\ activities \in {<<>>, Unreadable}
  /\ tz = 0
  /\ now = Morning
  /\ call = NoCall

\* A request is handled on the data loaded from the file; a handler that
\* does not reject the request calls saveData, whose write succeeds or not.
HandleOnFile(fn, request, outcome) ==
  \E written \in BOOLEAN :
    /\ call = NoCall
    /\ activities' = IF outcome.ret.success
                       THEN saveData(activities, outcome.data, written)
                       ELSE activities
    /\ call' = [fn |-> fn, request |-> request,
                written |-> outcome.ret.success /\ written, ret |-> outcome.ret]
    /\ UNCHANGED <<tz, now>>

FileCreateActivity ==
  \E id \in HandlerIds \ DOMAIN loadData(activities), type \in HandlerTypes :
    HandleOnFile("create-activity", [name |-> "n1", type |-> type],
                 createActivity(loadData(activities), id, "n1", type))

FileStartActivity ==
  \E activityId \in RequestIds :
    /\ ( /\ activityId \in DOMAIN loadData(activities)
         /\ loadData(activities)[activityId].type = "time"
         /\ ~ isActivityRunning(loadData(activities)[activityId]) )
         => Len(loadData(activities)[activityId].entries) < MaxTimers
    /\ HandleOnFile("start-activity", [activityId |-> activityId],
                    startActivity(loadData(activities), activityId))

FileStopActivity ==
  \E activityId \in RequestIds :
    HandleOnFile("stop-activity", [activityId |-> activityId],
                 stopActivity(loadData(activities), activityId))

FileToggleCheck ==
  \E activityId \in RequestIds, dateStr \in HandlerDateStrs :
    HandleOnFile("toggle-check", [activityId |-> activityId, dateStr |-> dateStr],
                 toggleCheck(loadData(activities), activityId, dateStr))

FileRenameActivity ==
  \E activityId \in RequestIds, newName \in HandlerNames :
    HandleOnFile("rename-activity", [activityId |-> activityId, newName |-> newName],
                 renameActivity(loadData(activities), activityId, newName))

FileDeleteActivity ==
  \E activityId \in RequestIds :
    HandleOnFile("delete-activity", [activityId |-> activityId],
                 deleteActivity(loadData(activities), activityId))

FileResetActivity ==
  \E activityId \in RequestIds :
    HandleOnFile("reset-activity", [activityId |-> activityId],
                 resetActivity(loadData(activities), activityId))

\* get-data, requested right after the response of a mutation request (or
\* at any other time): it returns loadData().
GetData ==
  /\ call.fn \in MutationRequests \cup {"none"}
  /\ call' = [fn |-> "get-data", after |-> call, ret |-> loadData(activities)]
  /\ UNCHANGED <<activities, tz, now>>

NextFile ==
  \/ FileCreateActivity
  \/ FileStartActivity
  \/ FileStopActivity
  \/ FileToggleCheck
  \/ FileRenameActivity
  \/ FileDeleteActivity
  \/ FileResetActivity
  \/ GetData
  \/ Return

SpecFile == InitFile /\ [][NextFile]_vars

\* C27: a get-data request made right after a mutation request that
\* returned success: true returns the data of that response, also when the
\* load of the request found the file unreadable or its write failed.
SuccessMeansPersisted ==
  ( /\ call.fn = "get-data"
    /\ call.after.fn \in MutationRequests
    /\ call.after.ret.success ) =>
      call.ret = call.after.ret.data

\* The statement of C27 for the requests whose write did not fail.
WrittenMeansPersisted ==
  ( /\ call.fn = "get-data"
    /\ call.after.fn \in MutationRequests
    /\ call.after.ret.success
    /\ call.after.written ) =>
      call.ret = call.after.ret.data

----------------------------------------------------------------------------
(* Concurrent requests: the renderer issues requests without waiting for   *)
(* the responses; the main process takes them from its event loop in any   *)
(* order and runs one handler at a time, each from loadData to its return. *)

\* The most requests in flight at once.
MaxInFlight == 2

\* The handler of a request applied to the loaded data; the id of a
\* create-activity request is the one generateId returns for it.
handlerOf(request, acts) ==
  CASE request.fn = "create-activity" ->
         createActivity(acts, request.id, request.name, request.type)
    [] request.fn = "start-activity"  -> startActivity(acts, request.activityId)
    [] request.fn = "stop-activity"   -> stopActivity(acts, request.activityId)
    [] request.fn = "toggle-check"    ->
         toggleCheck(acts, request.activityId, request.dateStr)
    [] request.fn = "rename-activity" ->
         renameActivity(acts, request.activityId, request.newName)
    [] request.fn = "delete-activity" -> deleteActivity(acts, request.activityId)
    [] request.fn = "reset-activity"  -> resetActivity(acts, request.activityId)

\* The data a handler works on, were it loaded when the request was issued
\* and saved when the handler is run.
handlerLoadsAtRequest(atRequest, atHandling) == atRequest

\* The data a handler works on: loadData() is the first statement of the
\* handler and no statement of the handler awaits, so it is the data file
\* as it is when the handler is run.
handlerLoads(atRequest, atHandling) == atHandling

ConcurrentRequests ==
  { [fn |-> "create-activity", id |-> "a3", name |-> "n1", type |-> "time"],
    [fn |-> "start-activity", activityId |-> "a1"],
    [fn |-> "stop-activity", activityId |-> "a1"],
    [fn |-> "toggle-check", activityId |-> "a2", dateStr |-> NoDateStr],
    [fn |-> "toggle-check", activityId |-> "a2",
     dateStr |-> CivilFromDays(DaysFromCivil(1970, 12, 30))],
    [fn |-> "rename-activity", activityId |-> "a1", newName |-> "n2"],
    [fn |-> "rename-activity", activityId |-> "a2", newName |-> "n2"],
    [fn |-> "delete-activity", activityId |-> "a1"],
    [fn |-> "reset-activity", activityId |-> "a1"],
    [fn |-> "reset-activity", activityId |-> "a2"] }

\* The data file before the requests: a time activity a1, stopped or
\* running, and a check activity a2.
ConcurrentSnapshots ==
  {[id \in {"a1", "a2"} |->
      IF id = "a1"
        THEN [id |-> "a1", name |-> "n1", type |-> "time", entries |-> e]
        ELSE [id |-> "a2", name |-> "n1", type |-> "check", checks |-> c]] :
     e \in {<<>>, <<MinutesEntry(60)>>, <<[start |-> Morning, end |-> Null]>>},
     c \in {<<>>, [k \in {NewYearsEve} |-> TRUE]}}

InitConcurrent ==
  /\ activities \in ConcurrentSnapshots
  /\ tz = 0
  /\ now = Morning + ClockStep
  /\ call = NoCall

\* The renderer issues a batch of requests, none of them answered yet, on
\* one of the data files above.
IssueRequests ==
  \E requests \in SUBSET ConcurrentRequests :
    /\ call = NoCall
    /\ activities \in ConcurrentSnapshots
    /\ Cardinality(requests) \in 1 .. MaxInFlight
    /\ call' = [fn |-> "requests", initial |-> activities, issued |-> requests,
                pending |-> requests, handled |-> <<>>, responses |-> <<>>]
    /\ UNCHANGED <<activities, tz, now>>

\* The main process runs the handler of one pending request.
HandlePending(request) ==
  LET outcome == handlerOf(request, handlerLoads(call.initial, activities)) IN
  /\ call.fn = "requests"
  /\ request \in call.pending
  /\ activities' = IF outcome.ret.success THEN outcome.data ELSE activities
  /\ call' = [call EXCEPT !.pending = @ \ {request},
                          !.handled = Append(@, request),
                          !.responses = Append(@, outcome.ret)]
  /\ UNCHANGED <<tz, now>>

PendingCreateActivity ==
  \E request \in ConcurrentRequests :
    request.fn = "create-activity" /\ HandlePending(request)

PendingStartActivity ==
  \E request \in ConcurrentRequests :
    request.fn = "start-activity" /\ HandlePending(request)

PendingStopActivity ==
  \E request \in ConcurrentRequests :
    request.fn = "stop-activity" /\ HandlePending(request)

PendingToggleCheck ==
  \E request \in ConcurrentRequests :
    request.fn = "toggle-check" /\ HandlePending(request)

PendingRenameActivity ==
  \E request \in ConcurrentRequests :
    request.fn = "rename-activity" /\ HandlePending(request)

PendingDeleteActivity ==
  \E request \in ConcurrentRequests :
    request.fn = "delete-activity" /\ HandlePending(request)

PendingResetActivity ==
  \E request \in ConcurrentRequests :
    request.fn = "reset-activity" /\ HandlePending(request)

\* Every request of the batch has its response.
AllResponded ==
  /\ call.fn = "requests"
  /\ call.pending = {}
  /\ call' = NoCall
  /\ UNCHANGED <<activities, tz, now>>

NextConcurrent ==
  \/ IssueRequests
  \/ PendingCreateActivity
  \/ PendingStartActivity
  \/ PendingStopActivity
  \/ PendingToggleCheck
  \/ PendingRenameActivity
  \/ PendingDeleteActivity
  \/ PendingResetActivity
  \/ AllResponded

SpecConcurrent == InitConcurrent /\ [][NextConcurrent]_vars

\* The orders of a set of requests.
Orders(requests) ==
  {order \in [1 .. Cardinality(requests) -> requests] :
     \A i, j \in DOMAIN order : i # j => order[i] # order[j]}

\* The data and the responses after the requests of `order` from position
\* i on, applied one after the other to acts.
RECURSIVE OneAfterTheOther(_, _, _, _)
OneAfterTheOther(acts, order, i, responses) ==
  IF i > Len(order) THEN [data |-> acts, responses |-> responses]
  ELSE LET outcome == handlerOf(order[i], acts)
       IN OneAfterTheOther(outcome.data, order, i + 1,
                           Append(responses, outcome.ret))

----------------------------------------------------------------------------
(* Renderer: appData, liveTimers and the intervals that are not cleared.   *)
(* An action of the renderer sends its request, which the main process     *)
(* handles, and goes on when the response arrives; the responses in flight *)
(* arrive in any order.                                                    *)

\* The most responses in flight at once.
MaxResponses == 2

\* The ids of the activities of a snapshot that are running.
RunningIds(acts) == {id \in DOMAIN acts : isActivityRunning(acts[id])}

\* renderActivities with startLiveTimers called for an empty list too.
renderActivitiesAlwaysRestarting(appData, timers) ==
  [liveTimers |-> RunningIds(appData), intervals |-> RunningIds(appData)]

\* renderActivities: with no activity it returns after the empty-state
\* message; otherwise it ends with startLiveTimers, which clears every
\* interval of liveTimers and sets one for each running activity.
renderActivities(appData, timers) ==
  IF DOMAIN appData = {} THEN timers
  ELSE [liveTimers |-> RunningIds(appData),
        intervals |-> (timers.intervals \ timers.liveTimers) \cup RunningIds(appData)]

\* if (liveTimers[activityId]) { clearInterval(...); delete liveTimers[activityId]; }
clearTimer(timers, activityId) ==
  IF activityId \in timers.liveTimers
    THEN [liveTimers |-> timers.liveTimers \ {activityId},
          intervals |-> timers.intervals \ {activityId}]
    ELSE timers

\* The type create-activity is asked for, by the id generateId returns.
TypeOfId(id) == IF id = "a1" THEN "time" ELSE "check"

InitRenderer ==
  /\ activities = <<>>
  /\ tz = 0
  /\ now = Morning
  /\ call = [fn |-> "renderer", appData |-> <<>>,
              timers |-> [liveTimers |-> {}, intervals |-> {}],
              inFlight |-> {}]

\* An action sends its request: the main process handles it and the
\* response is in flight to the renderer.
Invoke(action, activityId, outcome) ==
  /\ call.fn = "renderer"
  /\ Cardinality(call.inFlight) < MaxResponses
  /\ activities' = outcome.data
  /\ call' = [call EXCEPT !.inFlight =
                @ \cup {[action |-> action, activityId |-> activityId,
                         ret |-> outcome.ret]}]
  /\ UNCHANGED <<tz, now>>

\* The response of an action arrives: on success appData is the data of
\* the response, the action's own timer is cleared where the action does
\* that, and the list is rendered.
Resume(response, clears) ==
  /\ call.fn = "renderer"
  /\ response \in call.inFlight
  /\ call' = IF response.ret.success
               THEN [call EXCEPT
                       !.inFlight = @ \ {response},
                       !.appData = response.ret.data,
                       !.timers = renderActivities(
                                    response.ret.data,
                                    IF clears THEN clearTimer(@, response.activityId)
                                    ELSE @)]
               ELSE [call EXCEPT !.inFlight = @ \ {response}]
  /\ UNCHANGED <<activities, tz, now>>

RendererCreateActivity ==
  \E id \in HandlerIds \ DOMAIN activities :
    Invoke("createActivity", id, createActivity(activities, id, "n1", TypeOfId(id)))

RendererStartActivity ==
  \E activityId \in DOMAIN call.appData :
    /\ ( /\ activityId \in DOMAIN activities
         /\ activities[activityId].type = "time"
         /\ ~ isActivityRunning(activities[activityId]) )
         => Len(activities[activityId].entries) < MaxTimers
    /\ Invoke("startActivity", activityId, startActivity(activities, activityId))

RendererStopActivity ==
  \E activityId \in DOMAIN call.appData :
    Invoke("stopActivity", activityId, stopActivity(activities, activityId))

RendererToggleCheck ==
  \E activityId \in DOMAIN call.appData :
    Invoke("toggleCheck", activityId, toggleCheck(activities, activityId, NoDateStr))

RendererDeleteActivity ==
  \E activityId \in DOMAIN call.appData :
    Invoke("deleteActivity", activityId, deleteActivity(activities, activityId))

RendererResetActivity ==
  \E activityId \in DOMAIN call.appData :
    Invoke("resetActivity", activityId, resetActivity(activities, activityId))

CreateActivityResponse ==
  \E response \in call.inFlight :
    response.action = "createActivity" /\ Resume(response, FALSE)

StartActivityResponse ==
  \E response \in call.inFlight :
    response.action = "startActivity" /\ Resume(response, FALSE)

StopActivityResponse ==
  \E response \in call.inFlight :
    response.action = "stopActivity" /\ Resume(response, TRUE)

ToggleCheckResponse ==
  \E response \in call.inFlight :
    response.action = "toggleCheck" /\ Resume(response, FALSE)

DeleteActivityResponse ==
  \E response \in call.inFlight :
    response.action = "deleteActivity" /\ Resume(response, TRUE)

ResetActivityResponse ==
  \E response \in call.inFlight :
    response.action = "resetActivity" /\ Resume(response, TRUE)

NextRenderer ==
  \/ RendererCreateActivity
  \/ RendererStartActivity
  \/ RendererStopActivity
  \/ RendererToggleCheck
  \/ RendererDeleteActivity
  \/ RendererResetActivity
  \/ CreateActivityResponse
  \/ StartActivityResponse
  \/ StopActivityResponse
  \/ ToggleCheckResponse
  \/ DeleteActivityResponse
  \/ ResetActivityResponse

SpecRenderer == InitRenderer /\ [][NextRenderer]_vars

\* C29: when every action has completed (no response is in flight), the
\* keys of liveTimers are the ids of the activities of appData whose last
\* entry is open, and no interval is left running for another id.
LiveTimersOfRunningActivities ==
  (call.fn = "renderer" /\ call.inFlight = {}) =>
    /\ call.timers.liveTimers = RunningIds(call.appData)
    /\ call.timers.intervals \subseteq RunningIds(call.appData)

----------------------------------------------------------------------------
(* Period navigation of the progress view: currentPeriod, currentDate and  *)
(* the previous and next buttons                                           *)

\* The most clicks on previous or next after a period is selected.
MaxNavigations == 2

\* Date.prototype.setMonth and setFullYear: the local date with the month
\* (the year) replaced, the day of the month and the time of day kept; a
\* day the month does not have runs over into the next month.
setMonth(t, monthIndex) ==
  MakeLocal(MakeDay(getFullYear(t), monthIndex, getDate(t)), LocalTimeOfDay(t))

setFullYear(t, year) ==
  MakeLocal(MakeDay(year, getMonth(t), getDate(t)), LocalTimeOfDay(t))

\* navigatePeriod: currentDate after the switch over currentPeriod.
navigatePeriod(currentPeriod, currentDate, direction) ==
  CASE currentPeriod = "day" ->
         setDate(currentDate, getDate(currentDate) + direction)
    [] currentPeriod = "week" ->
         setDate(currentDate, getDate(currentDate) + direction * 7)
    [] currentPeriod = "month" ->
         setMonth(currentDate, getMonth(currentDate) + direction)
    [] currentPeriod = "year" ->
         setFullYear(currentDate, getFullYear(currentDate) + direction)
    [] OTHER -> currentDate

\* The clock when the progress view is opened: noon UTC of every day of
\* January 1971 and of the last days of February and March 1972.
NavigationNows ==
  {DaysFromCivil(1971, 1, d) * DayUnits + 43200 : d \in 1 .. 31}
  \cup {DaysFromCivil(1972, 2, d) * DayUnits + 43200 : d \in 28 .. 29}
  \cup {DaysFromCivil(1972, 3, d) * DayUnits + 43200 : d \in 29 .. 31}

\* The progress view as it opens: currentPeriod = 'day', currentDate = new Date().
InitNavigation ==
  /\ activities = <<>>
  /\ tz \in TimeZones
  /\ now \in NavigationNows
  /\ call = [fn |-> "progress", currentPeriod |-> "day", currentDate |-> now,
              clicks |-> <<>>]

\* A period button is clicked.
SelectPeriod ==
  \E period \in Periods :
    /\ call.fn = "progress"
    /\ call' = [fn |-> "progress", currentPeriod |-> period, currentDate |-> now,
                clicks |-> <<>>]
    /\ UNCHANGED <<activities, tz, now>>

\* The previous or the next button is clicked; `clicks` keeps the
\* direction and the date shown before each click.
NavigatePeriod ==
  \E direction \in {-1, 1} :
    /\ call.fn = "progress"
    /\ Len(call.clicks) < MaxNavigations
    /\ call' = [call EXCEPT
                  !.currentDate = navigatePeriod(call.currentPeriod, @, direction),
                  !.clicks = Append(@, [direction |-> direction,
                                        from |-> call.currentDate])]
    /\ UNCHANGED <<activities, tz, now>>

NextNavigation == SelectPeriod \/ NavigatePeriod

SpecNavigation == InitNavigation /\ [][NextNavigation]_vars

\* The calendar month of a date, counted from year 0.
MonthNumber(t) == getFullYear(t) * 12 + getMonth(t)

\* C30: with the month period selected, from every day of the month,
\* next shows the month after the one shown and previous the month before
\* it, so next followed by previous shows the starting month again.
MonthNavigationByOneMonth ==
  (call.fn = "progress" /\ call.currentPeriod = "month") =>
    /\ \A i \in DOMAIN call.clicks :
         LET shown == IF i < Len(call.clicks) THEN call.clicks[i + 1].from
                      ELSE call.currentDate
         IN MonthNumber(shown) = MonthNumber(call.clicks[i].from) + call.clicks[i].direction
    /\ ( /\ Len(call.clicks) = 2
         /\ call.clicks[1].direction = 1
         /\ call.clicks[2].direction = -1 ) =>
           MonthNumber(call.currentDate) = MonthNumber(call.clicks[1].from)

\* The statement of C30 for the days every month has (1 through 28).
MonthNavigationUpToThe28th ==
  (call.fn = "progress" /\ call.clicks # <<>> /\ getDate(call.clicks[1].from) <= 28)
    => MonthNavigationByOneMonth

====
